---- MODULE Spec2Model ----
(***************************************************************************)
(* Ticket-processing pipeline of zava-ticket-processing: the document      *)
(* store (in-memory and Cosmos back ends), the stage triggers with their   *)
(* remote-call cascade (backend/app/services/ai_processing.py and          *)
(* invoice_processing.py), the local simulators, the stage-1 run with its  *)
(* auto-chain (extraction.py: process_extraction) and the ticket router.   *)
(*                                                                         *)
(* Documents are JSON values.  A JSON value is a one-field record whose    *)
(* field name is its type, so that values of different types compare       *)
(* unequal: [str |-> s], [num |-> n], [bool |-> b], [null |-> TRUE],       *)
(* [list |-> seq], [dict |-> f] with f a function from keys to values.     *)
(* Timestamps are abstracted to two values: the creation time and "later". *)
(* Amounts are integers (cents).                                           *)
(***************************************************************************)
EXTENDS Integers, Sequences, FiniteSets, TLC

VARIABLES
    settings,   \* app.config.Settings (cached singleton: fixed per run)
    tickets,    \* the document store: ticket id -> document or JNull
    tasks,      \* background work items (FastAPI BackgroundTasks)
    http,       \* the response of the last router request
    requests,   \* number of router requests handled so far
    upd,        \* the last storage.update_ticket call of a store run, and their number
    call        \* the last call of a parser or simulator function: input and result

vars == <<settings, tickets, tasks, http, requests, upd, call>>

----------------------------------------------------------------------------
(* JSON values *)

JStr(s) == [str |-> s]
JNum(n) == [num |-> n]
JBool(b) == [bool |-> b]
JNull == [null |-> TRUE]
JList(q) == [list |-> q]
JDict(f) == [dict |-> f]

IsDict(v) == DOMAIN v = {"dict"}
IsStr(v) == DOMAIN v = {"str"}
IsNull(v) == DOMAIN v = {"null"}

EmptyDict == [k \in {} |-> JNull]

\* Python dict.get(key, default) on the content of a dict
Get(d, k, default) == IF k \in DOMAIN d THEN d[k] ELSE default

\* Python truthiness of a JSON value
Truthy(v) ==
    CASE DOMAIN v = {"null"} -> FALSE
      [] DOMAIN v = {"bool"} -> v.bool
      [] DOMAIN v = {"str"} -> v.str # ""
      [] DOMAIN v = {"num"} -> v.num # 0
      [] DOMAIN v = {"list"} -> v.list # <<>>
      [] DOMAIN v = {"dict"} -> DOMAIN v.dict # {}

\* abstract clock values
CreatedTs == JStr("t0")
NowTs == JStr("t1")

----------------------------------------------------------------------------
(* Document store *)

\* memory_store.update_ticket._deep_merge / cosmos_helpers.deep_merge
RECURSIVE deep_merge(_, _)
deep_merge(base, overlay) ==
    [k \in DOMAIN base \cup DOMAIN overlay |->
        IF k \notin DOMAIN overlay THEN base[k]
        ELSE IF IsDict(overlay[k]) /\ k \in DOMAIN base /\ IsDict(base[k])
             THEN JDict(deep_merge(base[k].dict, overlay[k].dict))
             ELSE overlay[k]]

\* Python dict.update: top-level keys of the overlay replace those of base
dict_update(base, overlay) ==
    [k \in DOMAIN base \cup DOMAIN overlay |->
        IF k \in DOMAIN overlay THEN overlay[k] ELSE base[k]]

\* memory_store.update_ticket: the stored document after the update
\* (the document is unchanged, absent, when the ticket is not found)
memory_update_ticket(current, updates) ==
    IF IsNull(current) THEN current
    ELSE JDict(dict_update(deep_merge(current.dict, updates),
                           [k \in {"updatedAt"} |-> NowTs]))

\* cosmos_client.update_ticket: read_item, current.update(updates), upsert
cosmos_update_ticket(current, updates) ==
    IF IsNull(current) THEN current
    ELSE JDict(dict_update(dict_update(current.dict, updates),
                           [k \in {"updatedAt"} |-> NowTs]))

\* storage.update_ticket: delegates on settings.cosmos_configured
update_ticket(cfg, current, updates) ==
    IF cfg.cosmos_configured
    THEN cosmos_update_ticket(current, updates)
    ELSE memory_update_ticket(current, updates)

----------------------------------------------------------------------------
(* Text *)

LowerChar(c) ==
    CASE c = "A" -> "a" [] c = "B" -> "b" [] c = "C" -> "c" [] c = "D" -> "d"
      [] c = "E" -> "e" [] c = "F" -> "f" [] c = "G" -> "g" [] c = "H" -> "h"
      [] c = "I" -> "i" [] c = "J" -> "j" [] c = "K" -> "k" [] c = "L" -> "l"
      [] c = "M" -> "m" [] c = "N" -> "n" [] c = "O" -> "o" [] c = "P" -> "p"
      [] c = "Q" -> "q" [] c = "R" -> "r" [] c = "S" -> "s" [] c = "T" -> "t"
      [] c = "U" -> "u" [] c = "V" -> "v" [] c = "W" -> "w" [] c = "X" -> "x"
      [] c = "Y" -> "y" [] c = "Z" -> "z" [] OTHER -> c

\* str.lower()
RECURSIVE Lower(_)
Lower(s) ==
    IF Len(s) = 0 THEN ""
    ELSE LowerChar(SubSeq(s, 1, 1)) \o Lower(SubSeq(s, 2, Len(s)))

\* needle in hay
Contains(hay, needle) ==
    \E i \in 1..(Len(hay) - Len(needle) + 1) :
        SubSeq(hay, i, i + Len(needle) - 1) = needle

StartsWith(s, prefix) ==
    Len(s) >= Len(prefix) /\ SubSeq(s, 1, Len(prefix)) = prefix

EndsWith(s, suffix) ==
    Len(s) >= Len(suffix) /\ SubSeq(s, Len(s) - Len(suffix) + 1, Len(s)) = suffix

\* str.rstrip("/")
RECURSIVE RStripSlash(_)
RStripSlash(s) ==
    IF Len(s) > 0 /\ SubSeq(s, Len(s), Len(s)) = "/"
    THEN RStripSlash(SubSeq(s, 1, Len(s) - 1))
    ELSE s

----------------------------------------------------------------------------
(* Settings *)

\* how many background tasks the thread pool runs at the same time
MaxRunning == 1

LocalB == "http://localhost:7074/api/process-ticket"
LocalC == "http://localhost:7075/api/process-invoice"
Hosted == "https://zava-stage.azurewebsites.net/"

\* <<STAGE_B_FUNCTION_URL, STAGE_C_FUNCTION_URL, APP_ENV>> of the deployments
\* considered: nothing configured, the defaults of config.py, the defaults run
\* in production with stage 3 unset, both processors hosted, only stage 3 hosted
Deployments ==
    { <<"", "", "production">>,
      <<LocalB, LocalC, "development">>,
      <<LocalB, "", "production">>,
      <<Hosted, Hosted, "production">>,
      <<"", Hosted, "development">> }

\* app.config.Settings (the fields the pipeline reads) and the environment:
\* whether data/code_mappings.json is readable, the size of the thread pool
SettingsSet ==
    { [ stage_b_function_url |-> d[1],
        stage_c_function_url |-> d[2],
        app_env |-> d[3],
        disable_simulation_fallback |-> strict,
        cosmos_configured |-> cosmos,
        mappings_file |-> TRUE,
        workers |-> w ]
      : d \in Deployments, strict \in BOOLEAN, cosmos \in BOOLEAN, w \in 1..MaxRunning }

is_developmentNever(cfg) == cfg.app_env = "dev"

\* Settings.is_development
is_development(cfg) == cfg.app_env = "development"

\* Settings.stage_b_url / Settings.stage_c_url
ensure_path(url, path) ==
    IF url # "" /\ ~EndsWith(RStripSlash(url), path)
    THEN RStripSlash(url) \o path
    ELSE url

stage_b_url(cfg) == ensure_path(cfg.stage_b_function_url, "/api/process-ticket")
stage_c_url(cfg) == ensure_path(cfg.stage_c_function_url, "/api/process-invoice")

stage_url(cfg, stage) == IF stage = "B" THEN stage_b_url(cfg) ELSE stage_c_url(cfg)

----------------------------------------------------------------------------
(* Reference data and extraction results *)

\* build a dict content from a set of <<key, value>> pairs
Rec(pairs) ==
    [k \in {p[1] : p \in pairs} |-> (CHOOSE p \in pairs : p[1] = k)[2]]

D(pairs) == JDict(Rec(pairs))

\* data/code_mappings.json: the entries the tests of the functions pin down
CodeMappings ==
    Rec({
      <<"vendor_codes", D({<<"mappings", D({
          <<"ABC Industrial Supplies",
            D({<<"vendorCode", JStr("ABCIND-001")>>, <<"approved", JBool(TRUE)>>})>>,
          <<"Greenfield Environmental Services",
            D({<<"vendorCode", JStr("GRNENV-006")>>, <<"approved", JBool(FALSE)>>})>>
        })>>})>>,
      <<"product_codes", D({<<"mappings", D({
          <<"VLV-4200-IND",
            D({<<"standardCode", JStr("ZAVA-VLV-4200-IND-STD")>>,
               <<"category", JStr("Valves & Flow Control")>>,
               \* the range _simulate_ai_processing reads (min, max in cents)
               <<"expectedPriceRange", D({<<"min", JNum(10000)>>,
                                          <<"max", JNum(100000)>>})>>})>>
        })>>})>>,
      <<"department_codes", D({<<"mappings", D({
          <<"Valves & Flow Control",
            D({<<"departmentCode", JStr("PROC-MFG-001")>>,
               <<"costCenter", JStr("CC-4500")>>})>>
        })>>})>>,
      <<"action_codes", D({<<"mappings", D({
          <<"valid_invoice_all_checks_pass",
            D({<<"nextAction", JStr("invoice_processing")>>})>>,
          <<"vendor_not_approved",
            D({<<"nextAction", JStr("vendor_approval")>>})>>,
          <<"amount_discrepancy_detected",
            D({<<"nextAction", JStr("manual_review")>>})>>
        })>>})>>
    })

\* _load_code_mappings: the file content, or {} when the file is missing
load_code_mappings(cfg) == IF cfg.mappings_file THEN CodeMappings ELSE EmptyDict

LineItem(code, qty, price, amount) ==
    D({<<"description", JStr("Industrial valve")>>, <<"productCode", JStr(code)>>,
       <<"quantity", JNum(qty)>>, <<"unitPrice", JNum(price)>>,
       <<"amount", JNum(amount)>>})

\* a structured-extraction result (the fields later stages read)
CuResult(invoice, vendor, due, subtotal, total, items, hazardous) ==
    Rec({<<"invoiceNumber", JStr(invoice)>>, <<"vendorName", JStr(vendor)>>,
         <<"dueDate", IF due = "" THEN JNull ELSE JStr(due)>>,
         <<"subtotal", JNum(subtotal)>>, <<"totalAmount", JNum(total)>>,
         <<"lineItems", JList(items)>>, <<"hazardousFlag", JBool(hazardous)>>})

\* extraction._empty_cu_result
empty_cu_result(error_msg) ==
    dict_update(CuResult("", "", "", 0, 0, <<>>, FALSE),
                [k \in {"error"} |-> JStr(error_msg)])

\* results extract_with_content_understanding can return
CuResults ==
    { CuResult("INV-2026-78432", "ABC Industrial Supplies", "2099-02-21",
               100000, 108000, <<LineItem("VLV-4200-IND", 2, 50000, 100000)>>, FALSE),
      CuResult("INV-2026-11111", "Greenfield Environmental Services", "2020-02-21",
               120000, 129600, <<LineItem("VLV-4200-IND", 2, 50000, 100000)>>, FALSE),
      empty_cu_result("Content Understanding not configured and no PDF bytes provided.") }

----------------------------------------------------------------------------
(* Dates *)

DigitVal(c) ==
    CASE c = "0" -> 0 [] c = "1" -> 1 [] c = "2" -> 2 [] c = "3" -> 3
      [] c = "4" -> 4 [] c = "5" -> 5 [] c = "6" -> 6 [] c = "7" -> 7
      [] c = "8" -> 8 [] c = "9" -> 9 [] OTHER -> -1

RECURSIVE DigitsVal(_)
\* value of a digit string, -1 when some character is not a digit
DigitsVal(s) ==
    IF Len(s) = 0 THEN 0
    ELSE LET d == DigitVal(SubSeq(s, Len(s), Len(s)))
             r == DigitsVal(SubSeq(s, 1, Len(s) - 1))
         IN IF d < 0 \/ r < 0 THEN -1 ELSE 10 * r + d

\* datetime.fromisoformat(s).date() for YYYY-MM-DD as yyyymmdd, -1 on ValueError
iso_date(s) ==
    IF Len(s) # 10 \/ SubSeq(s, 5, 5) # "-" \/ SubSeq(s, 8, 8) # "-" THEN -1
    ELSE LET y == DigitsVal(SubSeq(s, 1, 4))
             m == DigitsVal(SubSeq(s, 6, 7))
             d == DigitsVal(SubSeq(s, 9, 10))
         IN IF y < 1 \/ m < 1 \/ m > 12 \/ d < 1 \/ d > 31 THEN -1
            ELSE y * 10000 + m * 100 + d

\* datetime.now(timezone.utc).date()
Today == 20260301

----------------------------------------------------------------------------
(* Local simulators *)

\* d.get(k, {}) where the result is used as a dict
GetD(d, k) == Get(d, k, JDict(EmptyDict)).dict

\* ticket.get("extraction", {}).get("contentUnderstanding", {})
ticket_cu(ticket) == Get(GetD(ticket, "extraction"), "contentUnderstanding", JDict(EmptyDict))

\* cu.get(...) raises AttributeError when contentUnderstanding is stored as None
simulator_raises(ticket) == ~IsDict(ticket_cu(ticket))

RECURSIVE SumAmounts(_)
SumAmounts(items) ==
    IF items = <<>> THEN 0
    ELSE Get(Head(items).dict, "amount", JNum(0)).num + SumAmounts(Tail(items))

Abs(n) == IF n < 0 THEN -n ELSE n

\* ai_processing._simulate_ai_processing, steps 1-4: the price check of one item
price_out_of_range(item, product_mappings) ==
    LET pinfo == GetD(product_mappings, Get(item.dict, "productCode", JStr("")).str)
        expected_range == GetD(pinfo, "expectedPriceRange")
        unit_price == Get(item.dict, "unitPrice", JNum(0)).num
    IN  /\ DOMAIN expected_range # {}
        /\ unit_price # 0
        /\ \/ unit_price < Get(expected_range, "min", JNum(0)).num
           \/ ("max" \in DOMAIN expected_range /\ unit_price > expected_range["max"].num)

\* step 2: some line item is priced outside the expected range of its product
price_discrepancy_detected(line_items, product_mappings) ==
    \E i \in 1..Len(line_items) : price_out_of_range(line_items[i], product_mappings)

\* an amount check that flags any difference at all
amount_discrepancyStrict(cu) ==
    LET subtotal == Get(cu, "subtotal", JNum(0)).num
        computed_subtotal == SumAmounts(Get(cu, "lineItems", JList(<<>>)).list)
    IN  subtotal # 0 /\ computed_subtotal # 0 /\ computed_subtotal # subtotal

\* step 4: the line-item amounts do not add up to the stated subtotal
\* (amounts are whole cents, so "> 0.01" reads "> 1")
amount_discrepancy(cu) ==
    LET subtotal == Get(cu, "subtotal", JNum(0)).num
        computed_subtotal == SumAmounts(Get(cu, "lineItems", JList(<<>>)).list)
    IN  subtotal # 0 /\ computed_subtotal # 0 /\ Abs(computed_subtotal - subtotal) > 1

\* a decision that looks at hazardous materials first
ai_decisionHazardFirst(cu, mappings) ==
    IF Truthy(Get(cu, "hazardousFlag", JBool(FALSE)))
    THEN [action_key |-> "hazardous_materials_present",
          flags |-> <<"HAZARDOUS", "EHS_REVIEW_REQUIRED">>]
    ELSE IF Get(GetD(GetD(GetD(mappings, "vendor_codes"), "mappings"),
                     Get(cu, "vendorName", JStr("Unknown Vendor")).str),
                "approved", JBool(TRUE)) = JBool(FALSE)
    THEN [action_key |-> "vendor_not_approved", flags |-> <<"UNAPPROVED_VENDOR">>]
    ELSE [action_key |-> "valid_invoice_all_checks_pass", flags |-> <<>>]

\* ai_processing._simulate_ai_processing, step 4: [action_key, flags]
ai_decision(cu, mappings) ==
    LET vendor_name == Get(cu, "vendorName", JStr("Unknown Vendor")).str
        vendor_info == GetD(GetD(GetD(mappings, "vendor_codes"), "mappings"), vendor_name)
        vendor_approved == Get(vendor_info, "approved", JBool(TRUE)).bool
        line_items == Get(cu, "lineItems", JList(<<>>)).list
        product_mappings == GetD(GetD(mappings, "product_codes"), "mappings")
        hazardous == Truthy(Get(cu, "hazardousFlag", JBool(FALSE)))
        due_date == Get(cu, "dueDate", JStr(""))
        past_due == /\ Truthy(due_date)
                    /\ iso_date(due_date.str) >= 0
                    /\ iso_date(due_date.str) < Today
    IN  IF ~vendor_approved
        THEN [action_key |-> "vendor_not_approved", flags |-> <<"UNAPPROVED_VENDOR">>]
        ELSE IF price_discrepancy_detected(line_items, product_mappings)
                \/ amount_discrepancy(cu)
        THEN [action_key |-> "amount_discrepancy_detected",
              flags |-> <<"AMOUNT_DISCREPANCY", "MANUAL_REVIEW_REQUIRED">>]
        ELSE IF hazardous
        THEN [action_key |-> "hazardous_materials_present",
              flags |-> <<"HAZARDOUS", "EHS_REVIEW_REQUIRED">>]
        ELSE IF past_due
        THEN [action_key |-> "past_due_invoice", flags |-> <<"PAST_DUE", "EXPEDITED_PAYMENT">>]
        ELSE [action_key |-> "valid_invoice_all_checks_pass", flags |-> <<>>]

\* ai_processing._simulate_ai_processing: the update payload it persists and returns
simulate_ai_processing(ticket, cfg) ==
    LET mappings == load_code_mappings(cfg)
        cu == ticket_cu(ticket).dict
        vendor_name == Get(cu, "vendorName", JStr("Unknown Vendor")).str
        vendor_info == GetD(GetD(GetD(mappings, "vendor_codes"), "mappings"), vendor_name)
        vendor_approved == Get(vendor_info, "approved", JBool(TRUE)).bool
        decision == ai_decision(cu, mappings)
        action_info == GetD(GetD(GetD(mappings, "action_codes"), "mappings"), decision.action_key)
        next_action == Get(action_info, "nextAction", JStr("invoice_processing"))
        flagset == {decision.flags[i] : i \in 1..Len(decision.flags)}
    IN  Rec({
          <<"status", JStr("ai_processed")>>,
          <<"aiProcessing", D({
              <<"status", JStr("completed")>>,
              <<"completedAt", NowTs>>,
              <<"agentName", JStr("information-processing-agent (local-sim)")>>,
              <<"standardizedCodes", D({
                  <<"vendorCode", Get(vendor_info, "vendorCode", JStr("UNKNOWN-000"))>>})>>,
              <<"summary", JStr("Invoice summary")>>,
              <<"nextAction", next_action>>,
              <<"flags", JList(decision.flags)>>,
              <<"confidence", JNum(IF ~vendor_approved THEN 78
                                   ELSE IF "AMOUNT_DISCREPANCY" \in flagset THEN 85 ELSE 95)>>
            })>>
        })


\* invoice_processing._simulate_invoice_processing, step 1: the five validations
invoice_validations(cu, mappings) ==
    LET invoice_number == Get(cu, "invoiceNumber", JStr("")).str
        vendor_name == Get(cu, "vendorName", JStr("Unknown Vendor")).str
        total_amount == Get(cu, "totalAmount", JNum(0)).num
        due_date == Get(cu, "dueDate", JStr(""))
        vendor_info == GetD(GetD(GetD(mappings, "vendor_codes"), "mappings"), vendor_name)
    IN  [ invoiceNumberValid |->
            /\ invoice_number # ""
            /\ \/ StartsWith(invoice_number, "INV-")
               \/ StartsWith(invoice_number, "DC-")
               \/ StartsWith(invoice_number, "FRT-")
               \/ Len(invoice_number) > 5,
          amountCorrect |-> total_amount > 0 /\ total_amount < 50000000,
          dueDateValid |-> (Truthy(due_date) => iso_date(due_date.str) >= 0),
          vendorApproved |-> Get(vendor_info, "approved", JBool(TRUE)).bool,
          budgetAvailable |-> total_amount < 10000000 ]

ValidationNames ==
    <<"invoiceNumberValid", "amountCorrect", "dueDateValid", "vendorApproved", "budgetAvailable">>

\* an errors list that reports the first failing validation only
RECURSIVE validation_errorsFirstOnly(_, _)
validation_errorsFirstOnly(v, names) ==
    IF names = <<>> THEN <<>>
    ELSE IF v[Head(names)] THEN validation_errorsFirstOnly(v, Tail(names))
    ELSE <<Head(names)>>

\* the errors list: one message per failing validation, in the order of the code
RECURSIVE validation_errors(_, _)
validation_errors(v, names) ==
    IF names = <<>> THEN <<>>
    ELSE (IF v[Head(names)] THEN <<>> ELSE <<Head(names)>>)
         \o validation_errors(v, Tail(names))

\* a past-due test that counts an invoice due today
past_dueOrToday(due_date) ==
    /\ Truthy(due_date)
    /\ iso_date(due_date.str) >= 0
    /\ iso_date(due_date.str) <= Today

\* invoice_processing._simulate_invoice_processing: due_dt.date() < now.date()
past_due(due_date) ==
    /\ Truthy(due_date)
    /\ iso_date(due_date.str) >= 0
    /\ iso_date(due_date.str) < Today

\* a payment decision that looks at the due date only
all_validDueDateOnly(v) == v.dueDateValid

\* invoice_processing._simulate_invoice_processing, step 2: all(validations.values())
all_valid(v) == \A i \in 1..Len(ValidationNames) : v[ValidationNames[i]]

\* invoice_processing._simulate_invoice_processing: the update payload
simulate_invoice_processing(ticket, cfg) ==
    LET mappings == load_code_mappings(cfg)
        cu == ticket_cu(ticket).dict
        ai == GetD(ticket, "aiProcessing")
        next_action == Get(ai, "nextAction", JStr(""))
        due_date == Get(cu, "dueDate", JStr(""))
        v == invoice_validations(cu, mappings)
    IN  IF Truthy(next_action) /\ next_action # JStr("invoice_processing")
        THEN Rec({
               <<"status", JStr("invoice_processed")>>,
               <<"invoiceProcessing", D({
                   <<"status", JStr("skipped")>>,
                   <<"completedAt", NowTs>>,
                   <<"agentName", JStr("invoice-processing-agent (local-sim)")>>,
                   <<"validations", JNull>>,
                   <<"paymentSubmission", JNull>>,
                   <<"errors", JList(<<"nextAction is not invoice_processing">>)>>
                 })>>
             })
        ELSE Rec({
               <<"status", JStr("invoice_processed")>>,
               <<"invoiceProcessing", D({
                   <<"status", JStr("completed")>>,
                   <<"completedAt", NowTs>>,
                   <<"agentName", JStr("invoice-processing-agent (local-sim)")>>,
                   <<"validations",
                     JDict([n \in DOMAIN v |-> JBool(v[n])])>>,
                   <<"paymentSubmission",
                     IF all_valid(v)
                     THEN D({<<"submitted", JBool(TRUE)>>,
                             <<"paymentId", JStr("PAY-id")>>,
                             <<"submittedAt", NowTs>>,
                             <<"expectedPaymentDate",
                               JStr(IF past_due(due_date) THEN "now+1d" ELSE "now+3d")>>,
                             <<"status", JStr("submitted")>>})
                     ELSE D({<<"submitted", JBool(FALSE)>>,
                             <<"paymentId", JNull>>,
                             <<"submittedAt", JNull>>,
                             <<"expectedPaymentDate", JNull>>,
                             <<"status", JStr("not_submitted")>>})>>,
                   <<"errors", JList(validation_errors(v, ValidationNames))>>
                 })>>
             })

\* the simulator of a stage
simulate(stage, ticket, cfg) ==
    IF stage = "B" THEN simulate_ai_processing(ticket, cfg)
    ELSE simulate_invoice_processing(ticket, cfg)

----------------------------------------------------------------------------
(* Tickets *)

\* the ticket ids requests can name
TicketIds == {"T1", "T2"}

\* routers/tickets.py create_ticket: the document of a ticket created with a PDF
NewTicket(t) ==
    D({ <<"id", JStr(t)>>, <<"ticketId", JStr(t)>>,
        <<"status", JStr("ingested")>>,
        <<"createdAt", CreatedTs>>, <<"updatedAt", CreatedTs>>,
        <<"raw", D({<<"title", JStr("Invoice")>>, <<"extractionMethod", JStr("regex")>>})>>,
        <<"attachments", JList(<<"invoice.pdf">>)>>,
        <<"extraction", D({<<"status", JStr("pending")>>, <<"completedAt", JNull>>,
                           <<"basicMetadata", JNull>>,
                           <<"contentUnderstanding", JNull>>})>>,
        <<"aiProcessing", D({<<"status", JStr("pending")>>, <<"completedAt", JNull>>,
                             <<"standardizedCodes", JNull>>, <<"summary", JNull>>,
                             <<"nextAction", JNull>>})>>,
        <<"invoiceProcessing", D({<<"status", JStr("pending")>>, <<"completedAt", JNull>>,
                                  <<"validations", JNull>>,
                                  <<"paymentSubmission", JNull>>,
                                  <<"errors", JList(<<>>)>>})>> })

\* doc.get("status", "") of a stored document
StatusOf(doc) == IF IsDict(doc) THEN Get(doc.dict, "status", JStr("")).str ELSE "<absent>"

\* the status guard of a stage (trigger, router endpoint and remote handler)
AllowedStatusesLoose(stage) ==
    IF stage = "B" THEN {"ingested", "extracted", "ai_processing", "error"}
    ELSE {"extracted", "ai_processed", "invoice_processing", "error"}

AllowedStatuses(stage) ==
    IF stage = "B" THEN {"extracted", "ai_processing", "error"}
    ELSE {"ai_processed", "invoice_processing", "error"}

StageKey(stage) == IF stage = "B" THEN "aiProcessing" ELSE "invoiceProcessing"
\* a transient status that is an earlier state of the chain
TransientStatusEarlier(stage) == "extracting"
TransientStatus(stage) == IF stage = "B" THEN "ai_processing" ELSE "invoice_processing"
DoneStatus(stage) == IF stage = "B" THEN "ai_processed" ELSE "invoice_processed"

----------------------------------------------------------------------------
(* Remote stage processors (functions/stage_b_ai_processing, stage_c_...) *)

\* function_app._update_ticket_status (and the agent's MCP update_ticket tool)
update_ticket_status(current, updates) ==
    IF IsNull(current) THEN current
    ELSE JDict(dict_update(deep_merge(current.dict, updates),
                           [k \in {"updatedAt"} |-> NowTs]))

\* next actions a remote Stage B agent may produce (free-form text)
AgentNextActions ==
    { "invoice_processing", "INVOICE_PROCESSING - proceed to payment", "manual_review", " " }

\* what the agent persists through the MCP tool when it succeeds
agent_result(stage, next_action) ==
    IF stage = "B"
    THEN Rec({<<"status", JStr("ai_processed")>>,
              <<"aiProcessing", D({<<"status", JStr("completed")>>,
                                   <<"completedAt", NowTs>>,
                                   <<"summary", JStr("Agent summary")>>,
                                   <<"nextAction", JStr(next_action)>>,
                                   <<"flags", JList(<<>>)>>})>>})
    ELSE Rec({<<"status", JStr("invoice_processed")>>,
              <<"invoiceProcessing", D({<<"status", JStr("completed")>>,
                                        <<"completedAt", NowTs>>,
                                        <<"validations", D({
                                            <<"invoiceNumberValid", JBool(TRUE)>>,
                                            <<"amountCorrect", JBool(TRUE)>>,
                                            <<"dueDateValid", JBool(TRUE)>>,
                                            <<"vendorApproved", JBool(TRUE)>>,
                                            <<"budgetAvailable", JBool(TRUE)>>})>>,
                                        <<"paymentSubmission", D({
                                            <<"submitted", JBool(TRUE)>>,
                                            <<"paymentId", JStr("PAY-id")>>,
                                            <<"status", JStr("submitted")>>})>>})>>})

\* agent_logic.build_fallback_result / invoice_agent_logic.build_fallback_result
build_fallback_result(stage, error_message) ==
    IF stage = "B"
    THEN Rec({<<"status", JStr("error")>>,
              <<"aiProcessing", D({<<"status", JStr("error")>>, <<"completedAt", NowTs>>,
                                   <<"summary", JStr("")>>, <<"nextAction", JNull>>,
                                   <<"standardizedCodes", JNull>>, <<"flags", JList(<<>>)>>,
                                   <<"confidence", JNum(0)>>,
                                   <<"errorMessage", JStr(error_message)>>})>>})
    ELSE Rec({<<"status", JStr("error")>>,
              <<"invoiceProcessing", D({<<"status", JStr("error")>>, <<"completedAt", NowTs>>,
                                        <<"validations", JNull>>,
                                        <<"paymentSubmission", JNull>>,
                                        <<"errors", JList(<<error_message>>)>>,
                                        <<"errorMessage", JStr(error_message)>>})>>})

\* the body of a 200 response: success (with agentOutput) or agent failure
success_body(stage, next_action) ==
    D({<<"status", JStr(DoneStatus(stage))>>,
       <<"agentOutput",
         IF stage = "B" THEN D({<<"summary", JStr("Agent summary")>>,
                                <<"next_action", JStr(next_action)>>})
         ELSE D({<<"payment_submitted", JBool(TRUE)>>})>>})

failure_body == D({<<"status", JStr("error")>>, <<"error", JStr("Agent did not return expected output")>>})


\* the patch the handler applies after a successful agent run
clear_stale_error(stage) ==
    IF stage = "B"
    THEN Rec({<<"aiProcessing", D({<<"errorMessage", JNull>>})>>})
    ELSE Rec({<<"invoiceProcessing", D({<<"errorMessage", JNull>>, <<"errors", JList(<<>>)>>})>>})

AgentOutputs(stage) == IF stage = "B" THEN AgentNextActions ELSE {"-"}

\* process_ticket / process_invoice run to completion on the shared store:
\* the responses it can give and the document it leaves
HandlerRuns(stage, doc) ==
    IF IsNull(doc)
    THEN {[code |-> "404", body |-> failure_body, doc |-> doc, produced |-> "-"]}
    ELSE IF StatusOf(doc) \notin AllowedStatuses(stage)
    THEN {[code |-> "409", body |-> failure_body, doc |-> doc, produced |-> "-"]}
    ELSE LET accepted == update_ticket_status(doc, Rec({<<"status", JStr(TransientStatus(stage))>>}))
         IN  { [code |-> "200", body |-> success_body(stage, na), produced |-> na,
                doc |-> update_ticket_status(
                          update_ticket_status(accepted, agent_result(stage, na)),
                          clear_stale_error(stage))] : na \in AgentOutputs(stage) }
             \cup
             { [code |-> "200", body |-> failure_body, produced |-> "-",
                doc |-> update_ticket_status(accepted,
                          build_fallback_result(stage, "Agent did not return expected output"))] }
             \cup
             \* the handler accepted the ticket but no response arrived in time,
             \* or the host failed after the status was set
             { [code |-> c, body |-> JNull, doc |-> accepted, produced |-> "-"]
                 : c \in {"timeout", "500"} }

\* failures before the handler runs: cold start, gateway error, no answer,
\* connection refused, broken response
InfraFailures(doc) ==
    { [code |-> c, body |-> JNull, doc |-> doc, produced |-> "-"]
        : c \in {"503", "500", "timeout", "connect", "exc"} }

\* a remote processor that does not share the backend's store (in-memory back
\* end): the ticket id, drawn at random by create_ticket, is unknown to it
ForeignResponses(stage, doc) ==
    { [code |-> "404", body |-> failure_body, doc |-> doc, produced |-> "-"] }

\* the outcomes of one POST to the stage processor
RemoteOutcomes(stage, doc, cfg) ==
    InfraFailures(doc) \cup
    (IF cfg.cosmos_configured THEN HandlerRuns(stage, doc) ELSE ForeignResponses(stage, doc))

----------------------------------------------------------------------------
(* Background work items *)

\* number of router requests handled in a run
MaxRequests == 1

\* one slot for the extraction queued at creation, one per later request
TaskIds == 1..(MaxRequests + 1)

\* kind: none | extract | ai | inv; pc: the position in the code;
\* stage: the trigger being executed; ticket: the document read by the guard;
\* first/second: what the two POSTs gave; posts/sims/writes: what the current
\* trigger call did so far; result: its return value; outcome: how it ended
IdleTask ==
    [kind |-> "none", tid |-> "-", pc |-> "idle", stage |-> "-", ticket |-> JNull,
     first |-> "-", second |-> "-", posts |-> 0, sims |-> 0, writes |-> 0,
     result |-> JNull, outcome |-> "-", produced |-> "-", msg |-> "-"]

NewTask(kind, t) ==
    [IdleTask EXCEPT !.kind = kind, !.tid = t,
                     !.pc = IF kind = "extract" THEN "queued" ELSE "guard",
                     !.stage = IF kind = "ai" THEN "B" ELSE IF kind = "inv" THEN "C" ELSE "-"]

\* the task as it enters a trigger call
EnterCall(task, stage) ==
    [IdleTask EXCEPT !.kind = task.kind, !.tid = task.tid, !.pc = "guard", !.stage = stage]

FreeSlot == CHOOSE i \in TaskIds : tasks[i].kind = "none" /\ \A j \in TaskIds : tasks[j].kind = "none" => i <= j

HasFreeSlot == \E i \in TaskIds : tasks[i].kind = "none"

\* an update that is applied to every stored document
StoreEverywhere(t, updates) ==
    [b \in TicketIds |-> update_ticket(settings, tickets[b], updates)]

\* storage.update_ticket applied to the store
Store(t, updates) == [tickets EXCEPT ![t] = update_ticket(settings, tickets[t], updates)]

\* several storage.update_ticket calls in a row
RECURSIVE ApplyAll(_, _)
ApplyAll(doc, patches) ==
    IF patches = <<>> THEN doc
    ELSE ApplyAll(update_ticket(settings, doc, Head(patches)), Tail(patches))

\* the _autochain debug marker process_extraction writes
Marker(fields) == Rec({<<"_autochain", D(fields)>>})

----------------------------------------------------------------------------
(* Stage triggers: trigger_ai_processing / trigger_invoice_processing *)

StageName(stage) == "Stage " \o stage

\* an error write that replaces the whole document body
error_payloadWiping(stage, error_msg) ==
    Rec({<<"status", JStr("error")>>,
         <<"extraction", JNull>>, <<"aiProcessing", JNull>>, <<"invoiceProcessing", JNull>>,
         <<StageKey(stage), D({<<"status", JStr("error")>>,
                               <<"errorMessage", JStr(error_msg)>>,
                               <<"processingTimeMs", JNum(0)>>})>>})

\* the terminal error write of a trigger
error_payload(stage, error_msg) ==
    Rec({<<"status", JStr("error")>>,
         <<StageKey(stage), D({<<"status", JStr("error")>>,
                               <<"errorMessage", JStr(error_msg)>>,
                               <<"processingTimeMs", JNum(0)>>})>>})

Failure(error_msg) == D({<<"error", JStr(error_msg)>>, <<"success", JBool(FALSE)>>})

\* {"success": True, **result}
Success(result) == JDict(dict_update([k \in {"success"} |-> JBool(TRUE)], result))

\* a queued background task has not been picked up by the thread pool yet
Waiting(j) ==
    tasks[j].pc = "queued" \/ (tasks[j].kind \in {"ai", "inv"} /\ tasks[j].pc = "guard")

Running(j) == tasks[j].kind # "none" /\ ~Waiting(j)

\* the first step of a task needs a free worker
CanStart(i) ==
    Waiting(i) => Cardinality({j \in TaskIds : Running(j)}) < settings.workers

\* the guard of a trigger: get_ticket, the status check, and the choice of
\* simulator or network; gives the task after the guard
AfterGuard(task, ticket, cfg) ==
    LET url == stage_url(cfg, task.stage)
    IN  IF ~Truthy(ticket)
        THEN [task EXCEPT !.pc = "ret", !.outcome = "not_found",
                          !.result = Failure("Ticket not found")]
        ELSE IF StatusOf(ticket) \notin AllowedStatuses(task.stage)
        THEN [task EXCEPT !.pc = "ret", !.outcome = "rejected", !.ticket = ticket,
                          !.result = Failure("Ticket is in status " \o StatusOf(ticket))]
        ELSE IF url = ""
        THEN [task EXCEPT !.pc = "sim", !.ticket = ticket]
        ELSE IF is_development(cfg) /\ Contains(url, "localhost")
        THEN [task EXCEPT !.pc = "sim", !.ticket = ticket]
        ELSE [task EXCEPT !.pc = "post1", !.ticket = ticket]

GuardMarkingError(i) ==
    LET task == tasks[i]
        after == AfterGuard(task, tickets[task.tid], settings)
    IN  /\ task.pc = "guard"
        /\ CanStart(i)
        /\ tasks' = [tasks EXCEPT ![i] = after]
        /\ tickets' = IF after.outcome = "rejected"
                      THEN Store(task.tid, Rec({<<"status", JStr("error")>>}))
                      ELSE tickets
        /\ UNCHANGED <<settings, http, requests, upd, call>>

\* the first step of a trigger call: a read of the store, no write
Guard(i) ==
    LET task == tasks[i]
    IN  /\ task.pc = "guard"
        /\ CanStart(i)
        /\ tasks' = [tasks EXCEPT ![i] = AfterGuard(task, tickets[task.tid], settings)]
        /\ UNCHANGED <<settings, tickets, http, requests, upd, call>>

\* where the code goes after the first response
AfterFirst(task, o) ==
    CASE o.code = "200" ->
           [task EXCEPT !.pc = "ret", !.outcome = "remote_ok", !.produced = o.produced,
                        !.result = Success(o.body.dict)]
      [] o.code = "404" ->
           [task EXCEPT !.pc = "ret", !.outcome = "remote_404",
                        !.result = Failure("Ticket not found by processing function")]
      [] o.code = "409" ->
           [task EXCEPT !.pc = "ret", !.outcome = "remote_409",
                        !.result = Failure(Get(o.body.dict, "error", JStr("Status conflict")).str)]
      [] o.code = "503" -> [task EXCEPT !.pc = "post2"]
      [] o.code = "timeout" ->
           [task EXCEPT !.pc = "err",
                        !.msg = StageName(task.stage) \o " function timed out after 240s"]
      [] o.code = "connect" -> [task EXCEPT !.pc = "sim"]
      [] o.code = "exc" ->
           [task EXCEPT !.pc = "err", !.msg = StageName(task.stage) \o " call failed"]
      [] OTHER ->
           IF settings.disable_simulation_fallback
           THEN [task EXCEPT !.pc = "err",
                   !.msg = StageName(task.stage) \o " function returned " \o o.code
                           \o " and simulation fallback is disabled"]
           ELSE [task EXCEPT !.pc = "sim_try"]

\* the first POST and the dispatch on its response
Post(i) ==
    LET task == tasks[i]
    IN  /\ task.pc = "post1"
        /\ \E o \in RemoteOutcomes(task.stage, tickets[task.tid], settings) :
             /\ tickets' = [tickets EXCEPT ![task.tid] = o.doc]
             /\ tasks' = [tasks EXCEPT ![i] =
                  AfterFirst([task EXCEPT !.posts = task.posts + 1, !.first = o.code], o)]
        /\ UNCHANGED <<settings, http, requests, upd, call>>

AfterRetryAgain(task, o) ==
    IF o.code = "200"
    THEN [task EXCEPT !.pc = "ret", !.outcome = "remote_ok", !.produced = o.produced,
                      !.result = Success(o.body.dict)]
    ELSE IF o.code = "503"
    THEN [task EXCEPT !.pc = "post2"]
    ELSE IF settings.disable_simulation_fallback
    THEN [task EXCEPT !.pc = "err",
            !.msg = StageName(task.stage) \o " function returned " \o task.first
                    \o " and simulation fallback is disabled"]
    ELSE [task EXCEPT !.pc = "sim_try"]

\* where the code goes after the retry: success on 200, otherwise (any status,
\* any exception, swallowed by the inner except) fallback-or-error
AfterRetry(task, o) ==
    IF o.code = "200"
    THEN [task EXCEPT !.pc = "ret", !.outcome = "remote_ok", !.produced = o.produced,
                      !.result = Success(o.body.dict)]
    ELSE IF settings.disable_simulation_fallback
    THEN [task EXCEPT !.pc = "err",
            !.msg = StageName(task.stage) \o " function returned " \o task.first
                    \o " and simulation fallback is disabled"]
    ELSE [task EXCEPT !.pc = "sim_try"]

\* the retry after a 503: sleep RETRY_503_DELAY_SECONDS, then one more POST
Retry(i) ==
    LET task == tasks[i]
    IN  /\ task.pc = "post2"
        /\ \E o \in RemoteOutcomes(task.stage, tickets[task.tid], settings) :
             /\ tickets' = [tickets EXCEPT ![task.tid] = o.doc]
             /\ tasks' = [tasks EXCEPT ![i] =
                  AfterRetry([task EXCEPT !.posts = task.posts + 1, !.second = o.code], o)]
        /\ UNCHANGED <<settings, http, requests, upd, call>>


\* the local simulator: called outside the try (no URL, development mode,
\* ConnectError handler: pc "sim") or inside it (fallback branch: pc "sim_try",
\* where an exception of the simulator is caught by `except Exception`)
Simulate(i) ==
    LET task == tasks[i]
        t == task.tid
        ran == [task EXCEPT !.sims = task.sims + 1]
        payload == simulate(task.stage, task.ticket.dict, settings)
        failed == StageName(task.stage) \o " call failed"
    IN  /\ task.pc \in {"sim", "sim_try"}
        /\ IF simulator_raises(task.ticket.dict)
           THEN IF task.pc = "sim"
                THEN /\ tasks' = [tasks EXCEPT ![i] = [ran EXCEPT !.pc = "ret", !.outcome = "raised"]]
                     /\ UNCHANGED tickets
                ELSE /\ tickets' = Store(t, error_payload(task.stage, failed))
                     /\ tasks' = [tasks EXCEPT ![i] =
                          [ran EXCEPT !.pc = "ret", !.outcome = "error", !.msg = failed,
                                      !.writes = task.writes + 1, !.result = Failure(failed)]]
           ELSE /\ tickets' = Store(t, payload)
                /\ tasks' = [tasks EXCEPT ![i] =
                     [ran EXCEPT !.pc = "ret", !.outcome = "sim_ok",
                                 !.writes = task.writes + 1,
                                 !.produced = IF task.stage = "B"
                                              THEN payload["aiProcessing"].dict["nextAction"].str
                                              ELSE "-",
                                 !.result = Success(payload)]]
        /\ UNCHANGED <<settings, http, requests, upd, call>>

\* the terminal error write (timeout, strict mode, unexpected exception)
WriteError(i) ==
    LET task == tasks[i]
    IN  /\ task.pc = "err"
        /\ tickets' = Store(task.tid, error_payload(task.stage, task.msg))
        /\ tasks' = [tasks EXCEPT ![i] =
             [task EXCEPT !.pc = "ret", !.outcome = "error", !.writes = task.writes + 1,
                          !.result = Failure(task.msg)]]
        /\ UNCHANGED <<settings, http, requests, upd, call>>

\* a manually triggered stage returns to the background-task runner
Finish(i) ==
    /\ tasks[i].pc = "ret"
    /\ tasks[i].kind \in {"ai", "inv"}
    /\ tasks' = [tasks EXCEPT ![i] = IdleTask]
    /\ UNCHANGED <<settings, tickets, http, requests, upd, call>>

----------------------------------------------------------------------------
(* Stage 1 and the auto-chain: extraction.process_extraction *)

\* status -> extracting
StartExtraction(i) ==
    /\ tasks[i].pc = "queued"
    /\ CanStart(i)
    /\ tickets' = Store(tasks[i].tid, Rec({<<"status", JStr("extracting")>>}))
    /\ tasks' = [tasks EXCEPT ![i].pc = "extract"]
    /\ UNCHANGED <<settings, http, requests, upd, call>>

\* an update that turns an extractor error into a failed stage
extraction_updateFailing(cu_result) ==
    Rec({<<"status", JStr(IF "error" \in DOMAIN cu_result THEN "error" ELSE "extracted")>>,
         <<"extraction", D({<<"status", JStr(IF "error" \in DOMAIN cu_result
                                             THEN "error" ELSE "completed")>>,
                            <<"completedAt", NowTs>>,
                            <<"contentUnderstanding", JDict(cu_result)>>,
                            <<"errorMessage", Get(cu_result, "error", JNull)>>})>>})

\* process_extraction, step 3: the update that persists the extraction result
extraction_update(cu_result) ==
    Rec({<<"status", JStr("extracted")>>,
         <<"extraction", D({<<"status", JStr("completed")>>,
                            <<"completedAt", NowTs>>,
                            <<"extractionMethod", JStr("regex")>>,
                            <<"basicMetadata", D({<<"pageCount", JNum(1)>>})>>,
                            <<"contentUnderstanding", JDict(cu_result)>>,
                            <<"errorMessage", Get(cu_result, "error", JNull)>>})>>})

error_update(error_msg) ==
    Rec({<<"status", JStr("error")>>,
         <<"extraction", D({<<"status", JStr("error")>>,
                            <<"completedAt", NowTs>>,
                            <<"basicMetadata", JNull>>,
                            <<"contentUnderstanding", JNull>>,
                            <<"errorMessage", JStr(error_msg)>>})>>})

\* a run that calls stage 2 with the extraction result not yet stored
ExtractOkUnpersisted(i) ==
    /\ tasks[i].pc = "extract"
    /\ tickets' = Store(tasks[i].tid, Marker({<<"stage", JStr("calling_stage_b")>>}))
    /\ tasks' = [tasks EXCEPT ![i] = EnterCall(tasks[i], "B")]
    /\ UNCHANGED <<settings, http, requests, upd, call>>

\* steps 1-3 succeed: persist the result, write the marker, call stage 2
ExtractOk(i) ==
    /\ tasks[i].pc = "extract"
    /\ \E cu_result \in CuResults :
         tickets' = [tickets EXCEPT ![tasks[i].tid] =
            ApplyAll(@, << extraction_update(cu_result),
                           Marker({<<"stage", JStr("calling_stage_b")>>}) >>)]
    /\ tasks' = [tasks EXCEPT ![i] = EnterCall(tasks[i], "B")]
    /\ UNCHANGED <<settings, http, requests, upd, call>>

\* a run that stores the stage-1 error and calls stage 2 all the same
ExtractRaisesThenCalls(i) ==
    /\ tasks[i].pc = "extract"
    /\ tickets' = Store(tasks[i].tid, error_update("extraction failed"))
    /\ tasks' = [tasks EXCEPT ![i] = EnterCall(tasks[i], "B")]
    /\ UNCHANGED <<settings, http, requests, upd, call>>

\* something in steps 1-3 raises: persist the error state and return
ExtractRaises(i) ==
    /\ tasks[i].pc = "extract"
    /\ tickets' = Store(tasks[i].tid, error_update("extraction failed"))
    /\ tasks' = [tasks EXCEPT ![i] = IdleTask]
    /\ UNCHANGED <<settings, http, requests, upd, call>>

\* only whitespace: next_act.strip().lower().split() is empty
RECURSIVE IsBlank(_)
IsBlank(s) == Len(s) = 0 \/ (SubSeq(s, 1, 1) = " " /\ IsBlank(SubSeq(s, 2, Len(s))))

\* a or b (Python)
Or(a, b) == IF Truthy(a) THEN a ELSE b

\* the next action process_extraction reads from the stage-2 result
chain_next_act(ai_result) ==
    LET agent_out == Or(Get(ai_result, "agentOutput", JNull), JDict(EmptyDict))
    IN  Or(Get(agent_out.dict, "next_action", JStr("")), Get(ai_result, "nextAction", JStr("")))

should_invoice(next_act) ==
    IF Truthy(next_act) THEN Contains(Lower(next_act.str), "invoice_processing") ELSE FALSE

\* does this stage-2 return make process_extraction call stage 3?
chains_to_invoice(task) ==
    /\ task.outcome # "raised"
    /\ Truthy(Get(task.result.dict, "success", JNull))
    /\ LET next_act == chain_next_act(task.result.dict)
       IN  /\ ~(Truthy(next_act) /\ IsBlank(next_act.str))
           /\ should_invoice(next_act)

\* the markers written after stage 2 returned
chain_markers(task) ==
    IF task.outcome = "raised"
    THEN << Marker({<<"stage", JStr("stage_b_exception")>>}) >>
    ELSE LET ok == Get(task.result.dict, "success", JNull)
             next_act == chain_next_act(task.result.dict)
             done == Marker({<<"stage", JStr("stage_b_done")>>, <<"success", ok>>})
         IN  IF ~Truthy(ok)
             THEN << done, Marker({<<"stage", JStr("stage_b_not_success")>>}) >>
             ELSE IF Truthy(next_act) /\ IsBlank(next_act.str)
             THEN << done, Marker({<<"stage", JStr("stage_b_exception")>>}) >>
             ELSE << done,
                     Marker({<<"stage", JStr("checking_next_action")>>,
                             <<"next_action", next_act>>,
                             <<"should_invoice", JBool(should_invoice(next_act))>>}),
                     IF should_invoice(next_act)
                     THEN Marker({<<"stage", JStr("calling_stage_c")>>})
                     ELSE Marker({<<"stage", JStr("skipped_stage_c")>>,
                                  <<"next_action", next_act>>}) >>

\* stage 2 returned to process_extraction: markers, then stage 3 or the end
Chain(i) ==
    LET task == tasks[i]
    IN  /\ task.pc = "ret" /\ task.kind = "extract" /\ task.stage = "B"
        /\ tickets' = [tickets EXCEPT ![task.tid] = ApplyAll(@, chain_markers(task))]
        /\ tasks' = [tasks EXCEPT ![i] =
             IF chains_to_invoice(task) THEN EnterCall(task, "C") ELSE IdleTask]
        /\ UNCHANGED <<settings, http, requests, upd, call>>

\* stage 3 returned to process_extraction
ChainEnd(i) ==
    LET task == tasks[i]
    IN  /\ task.pc = "ret" /\ task.kind = "extract" /\ task.stage = "C"
        /\ tickets' = Store(task.tid,
             IF task.outcome = "raised"
             THEN Marker({<<"stage", JStr("stage_c_error")>>})
             ELSE Marker({<<"stage", JStr("stage_c_done")>>,
                          <<"success", Get(task.result.dict, "success", JNull)>>}))
        /\ tasks' = [tasks EXCEPT ![i] = IdleTask]
        /\ UNCHANGED <<settings, http, requests, upd, call>>

----------------------------------------------------------------------------
(* Router: routers/tickets.py *)

\* POST /{ticket_id}/process-ai and /{ticket_id}/process-invoice
ProcessEndpoint(stage, t) ==
    LET doc == tickets[t]
        ep == IF stage = "B" THEN "process-ai" ELSE "process-invoice"
    IN  /\ requests < MaxRequests
        /\ HasFreeSlot
        /\ requests' = requests + 1
        /\ IF ~Truthy(doc)
           THEN /\ http' = [ep |-> ep, tid |-> t, code |-> 404]
                /\ UNCHANGED tasks
           ELSE IF StatusOf(doc) \notin AllowedStatuses(stage)
           THEN /\ http' = [ep |-> ep, tid |-> t, code |-> 409]
                /\ UNCHANGED tasks
           ELSE /\ http' = [ep |-> ep, tid |-> t, code |-> 200]
                /\ tasks' = [tasks EXCEPT ![FreeSlot] =
                                NewTask(IF stage = "B" THEN "ai" ELSE "inv", t)]
        /\ UNCHANGED <<settings, tickets, upd, call>>

reprocess_reset ==
    Rec({<<"status", JStr("ingested")>>,
         <<"extraction", D({<<"status", JStr("pending")>>})>>,
         <<"aiProcessing", D({<<"status", JStr("pending")>>})>>,
         <<"invoiceProcessing", D({<<"status", JStr("pending")>>})>>})

\* POST /{ticket_id}/reprocess; the blob download may fail, which is not fatal
Reprocess(t) ==
    LET doc == tickets[t]
    IN  /\ requests < MaxRequests
        /\ HasFreeSlot
        /\ requests' = requests + 1
        /\ IF ~Truthy(doc)
           THEN /\ http' = [ep |-> "reprocess", tid |-> t, code |-> 404]
                /\ UNCHANGED <<tasks, tickets>>
           ELSE /\ http' = [ep |-> "reprocess", tid |-> t, code |-> 200]
                /\ tickets' = Store(t, reprocess_reset)
                /\ \E downloaded \in BOOLEAN :
                     IF downloaded /\ Truthy(Get(doc.dict, "attachments", JNull))
                     THEN tasks' = [tasks EXCEPT ![FreeSlot] = NewTask("extract", t)]
                     ELSE UNCHANGED tasks
        /\ UNCHANGED <<settings, upd, call>>

\* DELETE /{ticket_id}
DeleteTicket(t) ==
    /\ requests < MaxRequests
    /\ requests' = requests + 1
    /\ IF IsNull(tickets[t])
       THEN /\ http' = [ep |-> "delete", tid |-> t, code |-> 404]
            /\ UNCHANGED tickets
       ELSE /\ http' = [ep |-> "delete", tid |-> t, code |-> 200]
            /\ tickets' = [tickets EXCEPT ![t] = JNull]
    /\ UNCHANGED <<settings, tasks, upd, call>>

----------------------------------------------------------------------------
(* The pipeline *)

NoUpdate == [n |-> 0, before |-> JNull, patch |-> JNull, after |-> JNull]

\* no parser or simulator function is under test
NoCall == [fn |-> "-"]

\* a ticket was created with a PDF: the document is stored, extraction is
\* queued; the other ticket id names no stored ticket
Init ==
    /\ settings \in SettingsSet
    /\ tickets = [t \in TicketIds |-> IF t = "T1" THEN NewTicket(t) ELSE JNull]
    /\ tasks = [i \in TaskIds |-> IF i = 1 THEN NewTask("extract", "T1") ELSE IdleTask]
    /\ http = [ep |-> "create", tid |-> "T1", code |-> 201]
    /\ requests = 0
    /\ upd = NoUpdate
    /\ call = NoCall

TaskStep(i) ==
    \/ StartExtraction(i)
    \/ ExtractOk(i)
    \/ ExtractRaises(i)
    \/ Guard(i)
    \/ Post(i)
    \/ Retry(i)
    \/ Simulate(i)
    \/ WriteError(i)
    \/ Chain(i)
    \/ ChainEnd(i)
    \/ Finish(i)

Next ==
    \/ \E i \in TaskIds : TaskStep(i)
    \/ \E t \in TicketIds : ProcessEndpoint("B", t)
    \/ \E t \in TicketIds : ProcessEndpoint("C", t)
    \/ \E t \in TicketIds : Reprocess(t)
    \/ \E t \in TicketIds : DeleteTicket(t)

Spec == Init /\ [][Next]_vars

\* the thread pool runs every background task it was given to its end
SpecFair == Spec /\ WF_vars(\E i \in TaskIds : TaskStep(i))

----------------------------------------------------------------------------
(* Two tickets processed at the same time *)

\* threads of the pool that runs background tasks
PoolSize == 2

\* deployments in which two runs are followed: side by side on a pool of
\* PoolSize threads where both stages are local, one after the other on a
\* pool of one thread where stage 2 is a hosted function
TwoTicketSettings ==
    { [cfg EXCEPT !.workers = IF cfg.stage_b_function_url = "" THEN PoolSize ELSE 1] :
        cfg \in { c \in SettingsSet :
                    /\ c.workers = 1
                    /\ c.stage_c_function_url = ""
                    /\ ~c.disable_simulation_fallback } }

\* two tickets were created one after the other; both extractions are queued
InitTwo ==
    /\ settings \in TwoTicketSettings
    /\ tickets = [t \in TicketIds |-> NewTicket(t)]
    /\ tasks = [i \in TaskIds |-> IF i = 1 THEN NewTask("extract", "T1")
                                ELSE IF i = 2 THEN NewTask("extract", "T2") ELSE IdleTask]
    /\ http = [ep |-> "create", tid |-> "T2", code |-> 201]
    /\ requests = 0
    /\ upd = NoUpdate
    /\ call = NoCall

SpecTwo == InitTwo /\ [][Next]_vars

----------------------------------------------------------------------------
(* The store on its own: storage.update_ticket applied to stored documents *)

\* number of update_ticket calls in a store run
MaxUpdates == 2

\* the patches the backend passes to storage.update_ticket
Patches(doc) ==
    { Rec({<<"status", JStr("extracting")>>}),
      error_update("extraction failed"),
      error_payload("B", "Stage B function timed out after 240s"),
      error_payload("C", "Stage C call failed"),
      reprocess_reset,
      Marker({<<"stage", JStr("calling_stage_b")>>}) }
    \cup { extraction_update(cu_result) : cu_result \in CuResults }
    \cup (IF IsDict(doc) /\ ~simulator_raises(doc.dict)
          THEN { simulate(stage, doc.dict, settings) : stage \in {"B", "C"} }
          ELSE {})

\* one storage.update_ticket(ticket_id, updates) call
UpdateTicket(t) ==
    /\ upd.n < MaxUpdates
    /\ \E updates \in Patches(tickets[t]) :
         /\ tickets' = Store(t, updates)
         /\ upd' = [n |-> upd.n + 1, before |-> tickets[t], patch |-> JDict(updates),
                    after |-> update_ticket(settings, tickets[t], updates)]
    /\ UNCHANGED <<settings, tasks, http, requests, call>>

\* a stored ticket (or none) and no background work
InitMerge ==
    /\ settings \in SettingsSet
    /\ tickets \in {f \in [TicketIds -> {NewTicket(t) : t \in TicketIds} \cup {JNull}] :
                      \A t \in TicketIds : f[t] \in {NewTicket(t), JNull}}
    /\ tasks = [i \in TaskIds |-> IdleTask]
    /\ http = [ep |-> "create", tid |-> "T1", code |-> 201]
    /\ requests = 0
    /\ upd = NoUpdate
    /\ call = NoCall

NextMerge == \E t \in TicketIds : UpdateTicket(t)

SpecMerge == InitMerge /\ [][NextMerge]_vars

----------------------------------------------------------------------------
(* The simulators on their own: one call on one ticket *)

\* due dates an extraction can hold, with what they are relative to today
DueDates ==
    { [text |-> "", kind |-> "none"],
      [text |-> "2020-02-21", kind |-> "past"],
      [text |-> "2026-03-01", kind |-> "today"],
      [text |-> "2099-02-21", kind |-> "future"],
      [text |-> "Feb 21, 2026", kind |-> "unparsed"] }

\* vendors: approved, marked unapproved, not in the reference table
Vendors ==
    { "ABC Industrial Supplies", "Greenfield Environmental Services", "Unapproved Co" }

\* tickets the Stage B simulator is called on.  Line items: none, or one
\* valve with its unit price unread, below, inside or above the expected
\* range (amount 1000.00).  Stated subtotals: unread, equal to the sum of the
\* amounts, off by one cent, off by two cents, off by 200.00.
AiInputs ==
    LET ItemLists ==
            { <<>> } \cup
            { <<LineItem("VLV-4200-IND", 2, price, 100000)>> :
                price \in {0, 5000, 50000, 200000} }
        Subtotals == {0, 100000, 100001, 100002, 120000}
    IN  { [cu |-> CuResult("INV-2026-78432", vendor, due.text, subtotal, 108000,
                           items, hazardous),
           due |-> due.kind] :
            vendor \in Vendors, due \in DueDates, subtotal \in Subtotals,
            items \in ItemLists, hazardous \in BOOLEAN }

\* tickets the Stage C simulator is called on.  Invoice numbers: the three
\* prefixes, a long number, a short one, none.  Totals in cents: none,
\* 1080.00, 100,000.00, 250,000.00, 500,000.00.  The stage-2 next action
\* stored with the ticket.
InvoiceInputs ==
    LET InvoiceNumbers == {"INV-1", "DC-7", "FRT-2", "2026-0001", "A12", ""}
        TotalAmounts == {0, 108000, 10000000, 25000000, 50000000}
        StoredNextActions ==
            {JStr("invoice_processing"), JStr("manual_review"), JStr(""), JNull}
    IN  { [cu |-> CuResult(invoice, vendor, due.text, total, total, <<>>, FALSE),
           due |-> due.kind, next_action |-> next_action] :
            invoice \in InvoiceNumbers, vendor \in Vendors, due \in DueDates,
            total \in TotalAmounts, next_action \in StoredNextActions }

\* the stored ticket with this extraction and this stage-2 next action
TicketWith(cu, next_action) ==
    dict_update(NewTicket("T1").dict,
                Rec({<<"status", JStr("ai_processed")>>,
                     <<"extraction", D({<<"status", JStr("completed")>>,
                                        <<"contentUnderstanding", JDict(cu)>>})>>,
                     <<"aiProcessing", D({<<"status", JStr("completed")>>,
                                          <<"nextAction", next_action>>})>>}))

\* _simulate_ai_processing(ticket, ticket_id)
CallAi ==
    /\ call.fn = "ai" /\ ~call.done
    /\ call' = [call EXCEPT
          !.done = TRUE,
          !.price_discrepancy =
              price_discrepancy_detected(
                  Get(call.input.cu, "lineItems", JList(<<>>)).list,
                  GetD(GetD(load_code_mappings(settings), "product_codes"), "mappings")),
          !.amount_discrepancy = amount_discrepancy(call.input.cu),
          !.decision = ai_decision(call.input.cu, load_code_mappings(settings)),
          !.result = JDict(simulate_ai_processing(TicketWith(call.input.cu, JNull), settings))]
    /\ UNCHANGED <<settings, tickets, tasks, http, requests, upd>>

\* _simulate_invoice_processing(ticket, ticket_id)
CallInvoice ==
    /\ call.fn = "invoice" /\ ~call.done
    /\ call' = [call EXCEPT
          !.done = TRUE,
          !.result = JDict(simulate_invoice_processing(
                             TicketWith(call.input.cu, call.input.next_action), settings))]
    /\ UNCHANGED <<settings, tickets, tasks, http, requests, upd>>

\* one deployment that simulates both stages, with or without the mappings file
SimSettings ==
    { [cfg EXCEPT !.mappings_file = present] :
        present \in BOOLEAN,
        cfg \in { c \in SettingsSet :
                    /\ c.stage_b_function_url = "" /\ c.stage_c_function_url = ""
                    /\ ~c.cosmos_configured /\ ~c.disable_simulation_fallback
                    /\ c.workers = 1 } }

\* a ticket is about to be given to one of the simulators
InitSim ==
    /\ settings \in SimSettings
    /\ tickets = [t \in TicketIds |-> JNull]
    /\ tasks = [i \in TaskIds |-> IdleTask]
    /\ http = [ep |-> "create", tid |-> "T1", code |-> 201]
    /\ requests = 0
    /\ upd = NoUpdate
    /\ call \in { [fn |-> "ai", input |-> x, done |-> FALSE, decision |-> JNull,
                    price_discrepancy |-> FALSE, amount_discrepancy |-> FALSE,
                    result |-> JNull] : x \in AiInputs }
              \cup
              { [fn |-> "invoice", input |-> x, done |-> FALSE, decision |-> JNull,
                 result |-> JNull] : x \in InvoiceInputs }

NextSim == CallAi \/ CallInvoice

SpecSim == InitSim /\ [][NextSim]_vars

----------------------------------------------------------------------------
(* Stage 3 requested for a ticket that stage 2 has passed *)

\* a ticket came out of stage 2 with next action invoice_processing, and
\* POST /{ticket_id}/process-invoice has queued stage 3 for it; one more
\* request can arrive while the task is queued or running
InitInvoice ==
    /\ settings \in TwoTicketSettings
    /\ tickets \in { [t \in TicketIds |->
                        IF t = "T1" THEN JDict(TicketWith(cu, JStr("invoice_processing")))
                        ELSE JNull] :
                     cu \in { c \in CuResults : "error" \notin DOMAIN c } }
    /\ tasks = [i \in TaskIds |-> IF i = 1 THEN NewTask("inv", "T1") ELSE IdleTask]
    /\ http = [ep |-> "process-invoice", tid |-> "T1", code |-> 200]
    /\ requests = 0
    /\ upd = NoUpdate
    /\ call = NoCall

SpecInvoice == InitInvoice /\ [][Next]_vars

----------------------------------------------------------------------------
(* Regex fallback extraction: the text of a PDF, line by line *)

\* the numbers of a parsed line item are in hundredths: float("2") is 200,
\* float("500.00") is 50000

UpperChar(c) ==
    CASE c = "a" -> "A" [] c = "b" -> "B" [] c = "c" -> "C" [] c = "d" -> "D"
      [] c = "e" -> "E" [] c = "f" -> "F" [] c = "g" -> "G" [] c = "h" -> "H"
      [] c = "i" -> "I" [] c = "j" -> "J" [] c = "k" -> "K" [] c = "l" -> "L"
      [] c = "m" -> "M" [] c = "n" -> "N" [] c = "o" -> "O" [] c = "p" -> "P"
      [] c = "q" -> "Q" [] c = "r" -> "R" [] c = "s" -> "S" [] c = "t" -> "T"
      [] c = "u" -> "U" [] c = "v" -> "V" [] c = "w" -> "W" [] c = "x" -> "X"
      [] c = "y" -> "Y" [] c = "z" -> "Z" [] OTHER -> c

\* str.upper()
RECURSIVE Upper(_)
Upper(s) ==
    IF Len(s) = 0 THEN ""
    ELSE UpperChar(SubSeq(s, 1, 1)) \o Upper(SubSeq(s, 2, Len(s)))

\* str.strip() (blanks)
RECURSIVE Strip(_)
Strip(s) ==
    IF Len(s) = 0 THEN ""
    ELSE IF SubSeq(s, 1, 1) = " " THEN Strip(SubSeq(s, 2, Len(s)))
    ELSE IF SubSeq(s, Len(s), Len(s)) = " " THEN Strip(SubSeq(s, 1, Len(s) - 1))
    ELSE s

Char(s, n) == SubSeq(s, n, n)

\* the character classes of the patterns: [A-Z], [0-9] (\d), "-", ","
CharClass(c) ==
    IF LowerChar(c) # c THEN "upper"
    ELSE IF DigitVal(c) >= 0 THEN "digit"
    ELSE IF c \in {"-", ","} THEN c
    ELSE "other"

\* re.match(r"^[A-Z]{2,5}-[A-Z0-9-]+$", line)
MatchesCode(line) ==
    \E k \in 2..5 :
        /\ Len(line) >= k + 2
        /\ \A n \in 1..k : CharClass(Char(line, n)) = "upper"
        /\ Char(line, k + 1) = "-"
        /\ \A n \in (k + 2)..Len(line) : CharClass(Char(line, n)) \in {"upper", "digit", "-"}

\* re.match(r"^[A-Z]{2,5}-[A-Z0-9-]+-$", line)
MatchesPartialCode(line) ==
    \E k \in 2..5 :
        /\ Len(line) >= k + 3
        /\ \A n \in 1..k : CharClass(Char(line, n)) = "upper"
        /\ Char(line, k + 1) = "-"
        /\ \A n \in (k + 2)..(Len(line) - 1) : CharClass(Char(line, n)) \in {"upper", "digit", "-"}
        /\ Char(line, Len(line)) = "-"

\* re.match(r"^[A-Z0-9]+$", line)
MatchesContinuation(line) ==
    /\ Len(line) >= 1
    /\ \A n \in 1..Len(line) : CharClass(Char(line, n)) \in {"upper", "digit"}

\* the line without a leading dollar sign
Undollar(line) == IF StartsWith(line, "$") THEN SubSeq(line, 2, Len(line)) ELSE line

\* re.match(r"^\$?([\d,]+\.\d{2})$", line)
MatchesAmount(line) ==
    LET body == Undollar(line)
    IN  /\ Len(body) >= 4
        /\ Char(body, Len(body) - 2) = "."
        /\ CharClass(Char(body, Len(body) - 1)) = "digit"
        /\ CharClass(Char(body, Len(body))) = "digit"
        /\ \A n \in 1..(Len(body) - 3) : CharClass(Char(body, n)) \in {"digit", ","}

\* re.match(r"^(\d+)$", line)
MatchesInteger(line) ==
    Len(line) >= 1 /\ \A n \in 1..Len(line) : CharClass(Char(line, n)) = "digit"

\* str.replace(",", "")
RECURSIVE RemoveCommas(_)
RemoveCommas(s) ==
    IF Len(s) = 0 THEN ""
    ELSE (IF Char(s, 1) = "," THEN "" ELSE Char(s, 1)) \o RemoveCommas(SubSeq(s, 2, Len(s)))

\* float(amount_match.group(1).replace(",", "")), in hundredths
AmountValue(line) ==
    LET body == Undollar(line)
    IN  100 * DigitsVal(RemoveCommas(SubSeq(body, 1, Len(body) - 3)))
          + DigitsVal(SubSeq(body, Len(body) - 1, Len(body)))

\* " ".join(parts)
RECURSIVE Join(_)
Join(parts) ==
    IF parts = <<>> THEN ""
    ELSE IF Len(parts) = 1 THEN parts[1]
    ELSE parts[1] \o " " \o Join(Tail(parts))

\* a classification that reads every bare integer as a quantity
classifyIntegerFirst(line, current_code) ==
    IF MatchesInteger(line) THEN "quantity"
    ELSE IF MatchesCode(line) /\ ~EndsWith(line, "-") THEN "code"
    ELSE IF MatchesPartialCode(line) THEN "partial"
    ELSE IF current_code # "" /\ EndsWith(current_code, "-") /\ MatchesContinuation(line)
    THEN "continuation"
    ELSE IF MatchesAmount(line) THEN "amount"
    ELSE "description"

\* _extract_line_items_multiline: which branch of the loop body takes the line
classify(line, current_code) ==
    IF MatchesCode(line) /\ ~EndsWith(line, "-") THEN "code"
    ELSE IF MatchesPartialCode(line) THEN "partial"
    ELSE IF current_code # "" /\ EndsWith(current_code, "-") /\ MatchesContinuation(line)
    THEN "continuation"
    ELSE IF MatchesAmount(line) THEN "amount"
    ELSE IF MatchesInteger(line) /\ current_code # "" THEN "quantity"
    ELSE "description"

\* the locals of _extract_line_items_multiline before the loop
TokenizerStart ==
    [current_desc_parts |-> <<>>, current_code |-> "", amounts_buffer |-> <<>>,
     items |-> <<>>, pos |-> 1, kind |-> "-", emitted |-> FALSE, done |-> FALSE]

\* the line item built from the locals
pending_item(st) ==
    D({<<"description", JStr(Join(st.current_desc_parts))>>,
       <<"productCode", JStr(st.current_code)>>,
       <<"quantity", JNum(st.amounts_buffer[1])>>,
       <<"unitPrice", JNum(st.amounts_buffer[2])>>,
       <<"amount", JNum(st.amounts_buffer[3])>>})

\* if current_code and len(amounts_buffer) >= 3
item_complete(st) == st.current_code # "" /\ Len(st.amounts_buffer) >= 3

\* a flush that leaves the numbers of the item in the buffer
flushKeepingBuffer(st) ==
    [st EXCEPT !.items = Append(st.items, pending_item(st)),
               !.current_desc_parts = <<>>, !.current_code = "",
               !.kind = "description", !.emitted = TRUE]

\* the flush inside the loop: append the item, clear the three locals
flush(st) ==
    [st EXCEPT !.items = Append(st.items, pending_item(st)),
               !.current_desc_parts = <<>>, !.current_code = "", !.amounts_buffer = <<>>,
               !.kind = "description", !.emitted = TRUE]

\* one step of _extract_line_items_multiline over the table lines: the branch
\* taken for the line at pos; a description line that finds a complete item
\* first flushes it (pos stays) and is then appended; after the last line
\* the final flush
token_step(st, table_lines) ==
    IF st.pos > Len(table_lines)
    THEN [st EXCEPT !.items = IF item_complete(st) THEN Append(st.items, pending_item(st))
                              ELSE st.items,
                    !.kind = "end", !.emitted = item_complete(st), !.done = TRUE]
    ELSE LET line == table_lines[st.pos]
             kind == classify(line, st.current_code)
             next == [st EXCEPT !.pos = st.pos + 1, !.kind = kind, !.emitted = FALSE]
         IN  CASE kind \in {"code", "partial"} -> [next EXCEPT !.current_code = line]
               [] kind = "continuation" ->
                    [next EXCEPT !.current_code = st.current_code \o line]
               [] kind = "amount" ->
                    [next EXCEPT !.amounts_buffer = Append(st.amounts_buffer, AmountValue(line))]
               [] kind = "quantity" ->
                    [next EXCEPT !.amounts_buffer = Append(st.amounts_buffer, 100 * DigitsVal(line))]
               [] kind = "description" ->
                    IF item_complete(st) THEN flush(st)
                    ELSE [next EXCEPT !.current_desc_parts = Append(st.current_desc_parts, line)]

\* the bounds of the items table: after the AMOUNT header, up to the first
\* later line holding Subtotal or TOTAL (0 for None)
RECURSIVE find_table(_, _, _)
find_table(lines, i, table_start) ==
    IF i > Len(lines) THEN [table_start |-> table_start, table_end |-> 0]
    ELSE LET stripped == Strip(lines[i])
             start == IF stripped \in {"AMOUNT", "Amount"} THEN i + 1 ELSE table_start
         IN  IF start # 0 /\ (Contains(stripped, "Subtotal") \/ Contains(stripped, "TOTAL"))
             THEN [table_start |-> start, table_end |-> i]
             ELSE find_table(lines, i + 1, start)

\* [l.strip() for l in lines[table_start:table_end] if l.strip()]
RECURSIVE stripped_nonempty(_)
stripped_nonempty(lines) ==
    IF lines = <<>> THEN <<>>
    ELSE (IF Strip(Head(lines)) = "" THEN <<>> ELSE <<Strip(Head(lines))>>)
         \o stripped_nonempty(Tail(lines))

\* the table lines the loop runs over; <<>> when there is no table
table_lines_of(lines) ==
    LET t == find_table(lines, 1, 0)
    IN  IF t.table_start = 0 \/ t.table_end = 0 THEN <<>>
        ELSE stripped_nonempty(SubSeq(lines, t.table_start, t.table_end - 1))

RECURSIVE run_tokenizer(_, _)
run_tokenizer(st, table_lines) ==
    IF st.done THEN st.items ELSE run_tokenizer(token_step(st, table_lines), table_lines)

\* _extract_line_items_multiline(lines)
extract_line_items_multiline(lines) ==
    LET t == find_table(lines, 1, 0)
    IN  IF t.table_start = 0 \/ t.table_end = 0 THEN <<>>
        ELSE run_tokenizer(TokenizerStart, table_lines_of(lines))

\* the line index of a label: first line equal to it once stripped and
\* upper-cased, 0 when there is none
label_index(lines, label) ==
    IF \E i \in 1..Len(lines) : Upper(Strip(lines[i])) = Upper(label)
    THEN CHOOSE i \in 1..Len(lines) :
            /\ Upper(Strip(lines[i])) = Upper(label)
            /\ \A j \in 1..(i - 1) : Upper(Strip(lines[j])) # Upper(label)
    ELSE 0

\* a columnar block read in the order the labels were declared
extract_columnar_blockDeclared(lines, labels) ==
    LET found == {k \in 1..Len(labels) : label_index(lines, labels[k]) # 0}
        last_label_idx ==
            CHOOSE m \in {label_index(lines, labels[k]) : k \in found} :
                \A k \in found : label_index(lines, labels[k]) <= m
    IN  [label \in {labels[k] : k \in 1..Len(labels)} |->
            IF found = {} \/ label_index(lines, label) = 0 THEN ""
            ELSE LET k == CHOOSE n \in 1..Len(labels) : labels[n] = label
                     value_idx == last_label_idx + k
                 IN  IF value_idx <= Len(lines) THEN Strip(lines[value_idx]) ELSE ""]

\* _extract_columnar_block(lines, labels): the found labels sorted by their
\* line index, the values read after the last label in that order
extract_columnar_block(lines, labels) ==
    LET found == {k \in 1..Len(labels) : label_index(lines, labels[k]) # 0}
        last_label_idx ==
            CHOOSE m \in {label_index(lines, labels[k]) : k \in found} :
                \A k \in found : label_index(lines, labels[k]) <= m
    IN  [label \in {labels[k] : k \in 1..Len(labels)} |->
            IF found = {} \/ label_index(lines, label) = 0 THEN ""
            ELSE LET offset == Cardinality({k \in found :
                                   label_index(lines, labels[k]) < label_index(lines, label)})
                     value_idx == last_label_idx + 1 + offset
                 IN  IF value_idx <= Len(lines) THEN Strip(lines[value_idx]) ELSE ""]

\* round(x, 2) of a product of two numbers in hundredths: x is in
\* ten-thousandths, the result in hundredths, a tie going to the even side
round2(x) ==
    LET q == x \div 100
        r == x % 100
    IN  IF r < 50 THEN q
        ELSE IF r > 50 THEN q + 1
        ELSE IF q % 2 = 0 THEN q ELSE q + 1

\* a number or 0: item.get(key, 0) or 0
NumberOr0(item, key) ==
    LET v == Get(item, key, JNum(0)) IN IF Truthy(v) THEN v.num ELSE 0

\* a reconciliation that does not round
fix_line_itemUnrounded(item) ==
    IF ~Truthy(Get(item.dict, "amount", JNull))
         /\ NumberOr0(item.dict, "quantity") # 0 /\ NumberOr0(item.dict, "unitPrice") # 0
    THEN JDict([item.dict EXCEPT !["amount"] =
                  JNum((NumberOr0(item.dict, "quantity") * NumberOr0(item.dict, "unitPrice"))
                         \div 100)])
    ELSE item

\* _fix_line_item_amounts, one item
fix_line_item(item) ==
    IF ~Truthy(Get(item.dict, "amount", JNull))
         /\ NumberOr0(item.dict, "quantity") # 0 /\ NumberOr0(item.dict, "unitPrice") # 0
    THEN JDict(dict_update(item.dict,
                 [k \in {"amount"} |->
                    JNum(round2(NumberOr0(item.dict, "quantity")
                                  * NumberOr0(item.dict, "unitPrice")))]))
    ELSE item

\* _fix_line_item_amounts(cu_result)
fix_line_item_amounts(cu_result) ==
    LET line_items == Get(cu_result, "lineItems", JList(<<>>)).list
    IN  IF "lineItems" \in DOMAIN cu_result
        THEN [cu_result EXCEPT !["lineItems"] =
                JList([n \in 1..Len(line_items) |-> fix_line_item(line_items[n])])]
        ELSE cu_result

HeaderLabels == <<"INVOICE NUMBER", "INVOICE DATE", "DUE DATE", "PO NUMBER">>

BillingLabels == <<"BILL TO", "PAYMENT TERMS">>

\* _extract_fallback(pdf_bytes): the fields of the result this development
\* follows (pdf.lines is the text of the PDF, <<>> when none can be read)
extract_fallback(pdf) ==
    IF pdf.lines = <<>> THEN empty_cu_result("Could not extract text from PDF.")
    ELSE LET invoice_header == extract_columnar_block(pdf.lines, HeaderLabels)
         IN  Rec({<<"invoiceNumber", JStr(invoice_header["INVOICE NUMBER"])>>,
                  <<"poNumber", JStr(invoice_header["PO NUMBER"])>>,
                  <<"lineItems", JList(extract_line_items_multiline(pdf.lines))>>})

\* _extract_with_cu_sdk: the result built from what the service returned,
\* the empty result when the call raised
extract_with_cu_sdk(service) ==
    IF service.raised THEN empty_cu_result("Content Understanding error")
    ELSE Rec({<<"invoiceNumber", JStr("INV-2026-78432")>>,
              <<"lineItems", JList(service.items)>>})

\* an extraction that returns the result of the service as it came
extract_with_content_understandingUnfixed(service, pdf, extraction_method, configured) ==
    IF extraction_method # "regex" /\ configured THEN extract_with_cu_sdk(service)
    ELSE IF pdf.bytes THEN extract_fallback(pdf)
    ELSE empty_cu_result("no PDF bytes")

\* a selection in which the regex method is treated as auto
extraction_tierRegexAsAuto(pdf, extraction_method, configured) ==
    IF configured THEN [tier |-> "primary", error |-> ""]
    ELSE IF pdf.bytes THEN [tier |-> "fallback", error |-> ""]
    ELSE [tier |-> "empty",
          error |-> "Content Understanding not configured and no PDF bytes provided."]

\* extract_with_content_understanding, the branch taken: the tier that
\* serves the call, and the error string of the empty result when none
\* does.  pdf.bytes is the truth value of pdf_bytes (None and b"" are
\* false); configured is settings.content_understanding_configured
extraction_tier(pdf, extraction_method, configured) ==
    IF extraction_method = "regex"
    THEN IF pdf.bytes THEN [tier |-> "fallback", error |-> ""]
         ELSE [tier |-> "empty", error |-> "Regex extraction requested but no PDF bytes."]
    ELSE IF extraction_method = "cu"
    THEN IF configured THEN [tier |-> "primary", error |-> ""]
         ELSE IF pdf.bytes THEN [tier |-> "fallback", error |-> ""]
         ELSE [tier |-> "empty",
               error |-> "Content Understanding not configured and no PDF bytes."]
    ELSE IF configured THEN [tier |-> "primary", error |-> ""]
         ELSE IF pdf.bytes THEN [tier |-> "fallback", error |-> ""]
         ELSE [tier |-> "empty",
               error |-> "Content Understanding not configured and no PDF bytes provided."]

\* extract_with_content_understanding(blob_url, pdf_bytes, extraction_method):
\* what the branch taken returns
extract_with_content_understanding(service, pdf, extraction_method, configured) ==
    LET branch == extraction_tier(pdf, extraction_method, configured)
    IN  IF branch.tier = "primary" THEN fix_line_item_amounts(extract_with_cu_sdk(service))
        ELSE IF branch.tier = "fallback" THEN extract_fallback(pdf)
        ELSE empty_cu_result(branch.error)

\* extract_basic_metadata: the human-readable file size.  format_fixed is
\* f"{num / den:.Nf}" with `digits` decimals: the decimal nearest to the
\* ratio, a tie going to the even last digit (the ratios formatted here are
\* exact in binary, den being a power of two)
size_display(file_size) ==
    LET format_fixed(num, den, digits) ==
            LET scale == IF digits = 1 THEN 10 ELSE 100
                floor == (num * scale) \div den
                rest == (num * scale) % den
                scaled == IF 2 * rest > den \/ (2 * rest = den /\ floor % 2 = 1)
                          THEN floor + 1 ELSE floor
                frac == scaled % scale
            IN  ToString(scaled \div scale) \o "."
                  \o (IF digits = 2 /\ frac < 10 THEN "0" ELSE "") \o ToString(frac)
    IN  IF file_size < 1024 THEN ToString(file_size) \o " B"
        ELSE IF file_size < 1024 * 1024 THEN format_fixed(file_size, 1024, 1) \o " KB"
        ELSE format_fixed(file_size, 1024 * 1024, 2) \o " MB"

\* extract_basic_metadata(pdf_bytes): pdf.size is len(pdf_bytes), pdf.opens
\* is whether PyMuPDF opens and reads the bytes without raising
extract_basic_metadata(pdf) ==
    IF pdf.opens
    THEN Rec({<<"pageCount", JNum(pdf.pages)>>,
              <<"fileSizeBytes", JNum(pdf.size)>>,
              <<"fileSizeDisplay", JStr(size_display(pdf.size))>>})
    ELSE Rec({<<"pageCount", JNum(0)>>,
              <<"fileSizeBytes", JNum(pdf.size)>>,
              <<"fileSizeDisplay", JStr(ToString(pdf.size) \o " B")>>,
              <<"error", JStr("PyMuPDF extraction failed")>>})

----------------------------------------------------------------------------
(* The remote agents' answers: free text with JSON in it *)

\* An answer is a sequence of atoms, printed one after the other: "{" and
\* "}", the fence of a code block, a member of an object ("key": value), the
\* key of a nested object ("key":), prose, and prose with one of the success
\* phrases in it.  No atom contains a brace, a fence or a success phrase
\* other than the atoms that are one.
\* the line of three backquotes that opens or closes a code block
Fence == "[fence]"

Members == { "\"summary\": \"Two valves\"", "\"ticketId\": \"T1\"",
             "\"payment_submitted\": true", "\"status\": \"completed\"" }

ObjectKeys == { "\"aiProcessing\":", "\"invoiceProcessing\":" }

\* the key of a member or of an object key: what its quotes enclose
KeyOf(atom) ==
    LET close == CHOOSE k \in 2..Len(atom) :
                    /\ SubSeq(atom, k, k) = "\""
                    /\ \A j \in 2..(k - 1) : SubSeq(atom, j, j) # "\""
    IN  SubSeq(atom, 2, close - 1)

\* json.loads(candidate): ok when the atoms are one object and nothing
\* else, with the keys of the object and the keys of the object nested in it
json_loads(candidate) ==
    LET RECURSIVE members(_, _, _)
        members(i, depth, acc) ==
            IF i > Len(candidate) THEN [ok |-> FALSE, keys |-> {}, inner |-> {}]
            ELSE IF candidate[i] = "}"
            THEN IF depth = 1
                 THEN [ok |-> i = Len(candidate), keys |-> acc.keys, inner |-> acc.inner]
                 ELSE members(i + 1, depth - 1, acc)
            ELSE IF candidate[i] \in Members
            THEN members(i + 1, depth,
                         IF depth = 1 THEN [acc EXCEPT !.keys = @ \cup {KeyOf(candidate[i])}]
                         ELSE [acc EXCEPT !.inner = @ \cup {KeyOf(candidate[i])}])
            ELSE IF /\ candidate[i] \in ObjectKeys /\ depth = 1
                    /\ i < Len(candidate) /\ candidate[i + 1] = "{"
            THEN members(i + 2, 2, [acc EXCEPT !.keys = @ \cup {KeyOf(candidate[i])}])
            ELSE [ok |-> FALSE, keys |-> {}, inner |-> {}]
    IN  IF candidate # <<>> /\ candidate[1] = "{"
        THEN members(2, 1, [keys |-> {}, inner |-> {}])
        ELSE [ok |-> FALSE, keys |-> {}, inner |-> {}]

\* _extract_json_block(text): the atoms of the block, <<>> for ""
extract_json_block(text) ==
    LET \* the code-block pattern: the leftmost fence that an opening brace
        \* follows, up to the nearest closing brace that a fence follows
        ends(i) == { j \in DOMAIN text : /\ j > i + 1 /\ text[j] = "}"
                                         /\ j < Len(text) /\ text[j + 1] = Fence }
        starts == { i \in DOMAIN text : /\ text[i] = Fence /\ i < Len(text)
                                        /\ text[i + 1] = "{" /\ ends(i) # {} }
        start == CHOOSE i \in starts : \A k \in starts : i <= k
        \* the bare pattern: from the first opening brace to the last closing one
        opens == { i \in DOMAIN text : text[i] = "{" }
        first == CHOOSE i \in opens : \A k \in opens : i <= k
        closes == { j \in DOMAIN text : text[j] = "}" /\ j > first }
        candidate == SubSeq(text, first, CHOOSE j \in closes : \A k \in closes : j >= k)
        count(brace) == Cardinality({ k \in DOMAIN candidate : candidate[k] = brace })
    IN  IF starts # {}
        THEN SubSeq(text, start + 1, CHOOSE j \in ends(start) : \A k \in ends(start) : j <= k)
        ELSE IF opens # {} /\ closes # {} /\ count("{") = count("}") THEN candidate
        ELSE <<>>

\* the answer as the agent printed it: the atoms on one line
RawOutput(text) == Strip(Join([n \in DOMAIN text |-> text[n] \o " "]))

\* agent_logic.parse_agent_response(output_text): the fields success, summary
\* and error of the result.  parsed and by_text record the path taken:
\* json.loads returned, the success phrases set success.
parse_agent_response(text) ==
    LET json_block == extract_json_block(text)
        loaded == IF json_block # <<>> THEN json_loads(json_block)
                  ELSE [ok |-> FALSE, keys |-> {}, inner |-> {}]
        summary_of(keys) == IF "summary" \in keys THEN "Two valves" ELSE ""
        from_json == /\ loaded.ok
                     /\ ("aiProcessing" \in loaded.keys \/ "summary" \in loaded.keys)
        \* _extract_summary_from_text: of the one line, what follows the
        \* first colon when the line mentions a summary, else the line
        colons == { n \in DOMAIN text : text[n] \in Members \cup ObjectKeys }
        colon == CHOOSE n \in colons : \A k \in colons : n <= k
        after_colon == SubSeq(text[colon], Len(KeyOf(text[colon])) + 4, Len(text[colon]))
        rest == Strip(RawOutput(<<after_colon>> \o SubSeq(text, colon + 1, Len(text))))
        summary_from_text ==
            IF (\E n \in DOMAIN text : text[n] \in Members /\ KeyOf(text[n]) = "summary")
                 /\ rest # ""
            THEN rest ELSE RawOutput(text)
        phrase == \E n \in DOMAIN text : text[n] = "successfully updated"
    IN  IF text = <<>>
        THEN [success |-> FALSE, summary |-> "", error |-> "Agent returned empty response",
              parsed |-> FALSE, by_text |-> FALSE]
        ELSE IF from_json
        THEN [success |-> TRUE,
              summary |-> IF "aiProcessing" \in loaded.keys THEN summary_of(loaded.inner)
                          ELSE summary_of(loaded.keys),
              error |-> "", parsed |-> TRUE, by_text |-> FALSE]
        ELSE IF phrase
        THEN [success |-> TRUE, summary |-> summary_from_text, error |-> "",
              parsed |-> loaded.ok, by_text |-> TRUE]
        ELSE [success |-> FALSE, summary |-> "", error |-> "",
              parsed |-> loaded.ok, by_text |-> FALSE]

\* invoice_agent_logic.parse_agent_response(output_text): the fields success,
\* payment_submitted, invoice_status and error of the result
parse_invoice_agent_response(text) ==
    LET json_block == extract_json_block(text)
        loaded == IF json_block # <<>> THEN json_loads(json_block)
                  ELSE [ok |-> FALSE, keys |-> {}, inner |-> {}]
        from_json == /\ loaded.ok
                     /\ loaded.keys \cap {"invoiceProcessing", "paymentSubmission",
                                          "payment_submitted", "validations"} # {}
        phrase == \E n \in DOMAIN text : text[n] = "successfully updated"
        skipped == \E n \in DOMAIN text : text[n] = "skipped"
    IN  IF text = <<>>
        THEN [success |-> FALSE, payment_submitted |-> FALSE, invoice_status |-> "",
              error |-> "Agent returned empty response", parsed |-> FALSE, by_text |-> FALSE]
        ELSE IF from_json
        THEN [success |-> TRUE,
              payment_submitted |-> /\ "invoiceProcessing" \notin loaded.keys
                                    /\ "payment_submitted" \in loaded.keys,
              invoice_status |-> IF /\ "invoiceProcessing" \in loaded.keys
                                    /\ "status" \in loaded.inner
                                 THEN "completed" ELSE "",
              error |-> "", parsed |-> TRUE, by_text |-> FALSE]
        ELSE [success |-> phrase \/ skipped, payment_submitted |-> FALSE,
              invoice_status |-> IF skipped THEN "skipped" ELSE "",
              error |-> "", parsed |-> loaded.ok, by_text |-> phrase \/ skipped]

----------------------------------------------------------------------------
(* A remote handler whose agent answers without having updated the ticket *)

\* answers of an agent that did not call its update tool: a report that
\* reads as a success, and prose
UnwrittenAnswers == { <<"successfully updated">>, <<"Here are the results">> }

\* process_ticket / process_invoice on a ticket it accepts, the agent having
\* written nothing: the status is set, the answer is parsed, and the handler
\* clears the stale error fields (success) or writes the fallback record
handler_outcome(stage, doc, answer) ==
    LET accepted == update_ticket_status(doc, Rec({<<"status", JStr(TransientStatus(stage))>>}))
        result == IF stage = "B" THEN parse_agent_response(answer)
                  ELSE parse_invoice_agent_response(answer)
    IN  IF result.success
        THEN [code |-> "200", body |-> success_body(stage, ""), produced |-> "",
              doc |-> update_ticket_status(accepted, clear_stale_error(stage))]
        ELSE [code |-> "200", body |-> failure_body, produced |-> "-",
              doc |-> update_ticket_status(accepted,
                        build_fallback_result(stage, "Agent did not return expected output"))]

\* the first POST, answered by a handler whose agent wrote nothing
PostUnwritten(i) ==
    LET task == tasks[i]
        doc == tickets[task.tid]
    IN  /\ task.pc = "post1"
        /\ settings.cosmos_configured
        /\ IsDict(doc) /\ StatusOf(doc) \in AllowedStatuses(task.stage)
        /\ \E answer \in UnwrittenAnswers :
             LET o == handler_outcome(task.stage, doc, answer)
             IN  /\ tickets' = [tickets EXCEPT ![task.tid] = o.doc]
                 /\ tasks' = [tasks EXCEPT ![i] =
                      AfterFirst([task EXCEPT !.posts = task.posts + 1, !.first = o.code], o)]
        /\ UNCHANGED <<settings, http, requests, upd, call>>

NextAgent ==
    \/ Next
    \/ \E i \in TaskIds : PostUnwritten(i)

\* the pipeline with agents that may answer without having written
SpecAgent == Init /\ [][NextAgent]_vars

----------------------------------------------------------------------------
(* The extractors on their own: one call on one document *)

\* table lines that follow the fixed part of a table
MaxFreeLines == 5

\* a description, a complete code, a partial code, a line that continues a
\* partial code, a bare integer, a currency-formatted number
TableTokens == {"Gate valve", "VLV-4200-IND", "FRT-TRUCK-", "BT", "2", "$500.00"}

\* a complete item as reportlab prints it, with padding and an empty line
PrintedItem == <<" Industrial valve ", "", "VLV-4200-IND", "2", "$500.00", "$1,000.00">>

\* the texts the tokenizer is called on: a header, the table, the totals
TableTexts ==
    { <<"ACME Corp", "DESCRIPTION", "AMOUNT">> \o fixed \o free \o <<"Subtotal:", "$1,000.00">> :
        fixed \in {<<>>, PrintedItem},
        free \in UNION { [1..n -> TableTokens] : n \in 0..MaxFreeLines } }

\* the value lines under the header labels
HeaderValues == <<"INV-2026-78432", " January 22, 2026", "February 21, 2026 ", "PO-2026-1150">>

\* the texts the columnar reader is called on: the header block as a
\* document prints it (labels in some order, some of them left out, in the
\* case and padding of the printer), some of the value lines, and
\* optionally a label printed again further down
ColumnarInputs ==
    LET PrintedLabel(label) ==
            IF label = "INVOICE NUMBER" THEN "Invoice Number " ELSE label
        LabelBlocks(labels) ==
            { q \in UNION { [1..n -> {labels[k] : k \in 1..Len(labels)}] :
                              n \in 0..Len(labels) } :
                \A a, b \in DOMAIN q : a # b => q[a] # q[b] }
    IN  { [labels |-> labels,
           lines |-> <<"ACME Corp">>
                     \o [n \in 1..Len(block) |-> PrintedLabel(block[n])]
                     \o SubSeq(HeaderValues, 1, values)
                     \o (IF repeated THEN <<"DUE DATE", "NET-30">> ELSE <<>>)] :
            labels \in {HeaderLabels, BillingLabels},
            block \in LabelBlocks(HeaderLabels) \cup LabelBlocks(BillingLabels),
            values \in 0..Len(HeaderValues), repeated \in BOOLEAN }

\* line items the service returns, numbers in hundredths: amount missing (0)
\* with quantity and unit price read, a fractional quantity, a quantity or a
\* unit price missing, an amount read right, an amount read wrong
ServiceResults ==
    LET ServiceItems ==
            { LineItem("VLV-4200-IND", qpa[1], qpa[2], qpa[3]) :
                qpa \in { <<200, 50000, 0>>, <<225, 33, 0>>, <<175, 33, 0>>, <<0, 50000, 0>>,
                           <<200, 0, 0>>, <<200, 50000, 100000>>, <<200, 50000, 99900>> } }
    IN  { [raised |-> TRUE, items |-> <<>>], [raised |-> FALSE, items |-> <<>>] }
        \cup { [raised |-> FALSE, items |-> <<a>>] : a \in ServiceItems }
        \cup { [raised |-> FALSE, items |-> <<a, b>>] : a, b \in ServiceItems }

\* the PDFs: no bytes, bytes without text, an invoice whose item amount is
\* printed as 0.00, an invoice whose item amount is printed right
Pdfs ==
    { [bytes |-> FALSE, lines |-> <<>>], [bytes |-> TRUE, lines |-> <<>>],
      [bytes |-> TRUE,
       lines |-> <<"ACME Corp", "AMOUNT", "Industrial valve", "VLV-4200-IND", "2",
                   "$500.00", "$0.00", "Subtotal:", "$1,000.00">>],
      [bytes |-> TRUE,
       lines |-> <<"ACME Corp", "AMOUNT", "Industrial valve", "VLV-4200-IND", "2",
                   "$500.00", "$1,000.00", "Subtotal:", "$1,000.00">>] }

ExtractInputs ==
    { [service |-> service, pdf |-> pdf, extraction_method |-> method,
       configured |-> configured] :
        service \in ServiceResults, pdf \in Pdfs,
        method \in {"auto", "cu", "regex"}, configured \in BOOLEAN }

\* sizes this far on either side of each threshold are given to the
\* metadata extractor
SizeSpread == 2

\* the byte strings the metadata extractor is called on: sizes around 0,
\* 1024 and 1024 * 1024, the size of a sample invoice and of a large scan,
\* each a PDF that opens or bytes PyMuPDF cannot open
MetadataInputs ==
    { [size |-> size, opens |-> opens, pages |-> IF opens THEN 1 ELSE 0] :
        size \in (0..SizeSpread)
                   \cup ((1024 - SizeSpread)..(1024 + SizeSpread))
                   \cup ((1024 * 1024 - SizeSpread)..(1024 * 1024 + SizeSpread))
                   \cup {1536 + 1024 * k : k \in 0..SizeSpread}
                   \cup {44954} \cup {5 * 1024 * 1024 + 5243 * k : k \in 0..SizeSpread},
        opens \in BOOLEAN }

\* extract_basic_metadata(pdf_bytes)
CallMetadata ==
    /\ call.fn = "metadata" /\ ~call.done
    /\ call' = [call EXCEPT !.done = TRUE, !.result = extract_basic_metadata(call.input)]
    /\ UNCHANGED <<settings, tickets, tasks, http, requests, upd>>

\* parts an agent's answer is made of
MaxParts == 4

\* the answers the parser of a stage ("b" or "c") is called on: up to
\* MaxParts parts, each of them prose, prose with a success phrase, a brace
\* or a fence on its own, an object the parser knows the keys of, an object
\* it does not, an object nested under the stage's key, and for stage B a
\* member outside any object, for stage C the word skipped
AgentAnswers(stage) ==
    LET known == IF stage = "b" THEN "\"summary\": \"Two valves\""
                 ELSE "\"payment_submitted\": true"
        parts == { <<"Here are the results">>, <<"successfully updated">>,
                   <<"{">>, <<"}">>, <<Fence>>,
                   <<"{", known, "}">>, <<"{", "\"ticketId\": \"T1\"", "}">>,
                   IF stage = "b"
                   THEN <<"{", "\"aiProcessing\":", "{", known, "}", "}">>
                   ELSE <<"{", "\"invoiceProcessing\":", "{", "\"status\": \"completed\"", "}", "}">>,
                   IF stage = "b" THEN <<known>> ELSE <<"skipped">> }
        RECURSIVE flatten(_)
        flatten(q) == IF q = <<>> THEN <<>> ELSE Head(q) \o flatten(Tail(q))
    IN  { flatten(q) : q \in UNION { [1..n -> parts] : n \in 0..MaxParts } }

\* agent_logic.parse_agent_response(output_text)
CallParseAgent ==
    /\ call.fn = "parse_b" /\ ~call.done
    /\ call' = [call EXCEPT !.done = TRUE, !.result = parse_agent_response(call.input)]
    /\ UNCHANGED <<settings, tickets, tasks, http, requests, upd>>

\* invoice_agent_logic.parse_agent_response(output_text)
CallParseInvoiceAgent ==
    /\ call.fn = "parse_c" /\ ~call.done
    /\ call' = [call EXCEPT !.done = TRUE,
                            !.result = parse_invoice_agent_response(call.input)]
    /\ UNCHANGED <<settings, tickets, tasks, http, requests, upd>>

\* extract_with_content_understanding(blob_url, pdf_bytes, extraction_method)
CallExtract ==
    /\ call.fn = "extract" /\ ~call.done
    /\ call' = [call EXCEPT
          !.done = TRUE,
          !.tier = extraction_tier(call.input.pdf, call.input.extraction_method,
                                   call.input.configured).tier,
          !.result = extract_with_content_understanding(
                         call.input.service, call.input.pdf,
                         call.input.extraction_method, call.input.configured)]
    /\ UNCHANGED <<settings, tickets, tasks, http, requests, upd>>

\* _extract_columnar_block(lines, labels)
CallColumnar ==
    /\ call.fn = "columnar" /\ ~call.done
    /\ call' = [call EXCEPT
          !.done = TRUE,
          !.result = extract_columnar_block(call.input.lines, call.input.labels)]
    /\ UNCHANGED <<settings, tickets, tasks, http, requests, upd>>

\* _extract_line_items_multiline(lines), up to the loop: the table is found
FindTable ==
    /\ call.fn = "items" /\ call.pc = "start"
    /\ LET t == find_table(call.input, 1, 0)
       IN  IF t.table_start = 0 \/ t.table_end = 0
           THEN call' = [call EXCEPT !.pc = "returned", !.st.done = TRUE]
           ELSE call' = [call EXCEPT !.pc = "loop", !.table = table_lines_of(call.input)]
    /\ UNCHANGED <<settings, tickets, tasks, http, requests, upd>>

\* _extract_line_items_multiline(lines): one step of the loop, or the final flush
TokenStep ==
    /\ call.fn = "items" /\ call.pc = "loop"
    /\ LET st == token_step(call.st, call.table)
       IN  call' = [call EXCEPT !.st = st, !.pc = IF st.done THEN "returned" ELSE "loop"]
    /\ UNCHANGED <<settings, tickets, tasks, http, requests, upd>>

\* a document is about to be given to one of the extractors
InitParse ==
    /\ settings \in { c \in SimSettings : c.mappings_file }
    /\ tickets = [t \in TicketIds |-> JNull]
    /\ tasks = [i \in TaskIds |-> IdleTask]
    /\ http = [ep |-> "create", tid |-> "T1", code |-> 201]
    /\ requests = 0
    /\ upd = NoUpdate
    /\ call \in { [fn |-> "extract", input |-> x, done |-> FALSE, tier |-> "-",
                 result |-> EmptyDict] :
                    x \in ExtractInputs }
              \cup
              { [fn |-> "columnar", input |-> x, done |-> FALSE, result |-> EmptyDict] :
                    x \in ColumnarInputs }
              \cup
              UNION { { [fn |-> "parse_" \o stage, input |-> x, done |-> FALSE,
                         result |-> EmptyDict] : x \in AgentAnswers(stage) } :
                      stage \in {"b", "c"} }
              \cup
              { [fn |-> "metadata", input |-> x, done |-> FALSE, result |-> EmptyDict] :
                    x \in MetadataInputs }
              \cup
              { [fn |-> "items", input |-> x, pc |-> "start", table |-> <<>>,
                 st |-> TokenizerStart] : x \in TableTexts \cup {<<"ACME Corp", "TOTAL DUE">>} }

NextParse ==
    \/ CallExtract \/ CallColumnar \/ CallMetadata \/ FindTable \/ TokenStep
    \/ CallParseAgent \/ CallParseInvoiceAgent

SpecParse == InitParse /\ [][NextParse]_vars

----------------------------------------------------------------------------
(* The Payment API: submissions recorded in a ledger *)

\* payment_logic.APPROVED_VENDORS: the vendors this development submits
\* for, maxSinglePayment in cents (GRNENV-006 is not in the list)
APPROVED_VENDORS ==
    [code \in {"ABCIND-001", "DELTCH-002"} |->
        [name |-> IF code = "ABCIND-001" THEN "ABC Industrial Supplies"
                  ELSE "Delta Chemical Solutions",
         maxSinglePayment |-> IF code = "ABCIND-001" THEN 5000000 ELSE 2500000]]

\* a submission that does not look at the vendor's limit
submit_paymentUnchecked(payments, body, payment_id) ==
    LET vendor_code == Get(body, "vendorCode", JStr("")).str
    IN  IF vendor_code \notin DOMAIN APPROVED_VENDORS
        THEN [payments |-> payments,
              response |-> [status_code |-> 200, submitted |-> FALSE,
                            error |-> "vendor is not approved", paymentId |-> ""]]
        ELSE [payments |-> [id \in DOMAIN payments \cup {payment_id} |->
                              IF id = payment_id
                              THEN [vendorCode |-> vendor_code,
                                    amount |-> Get(body, "amount", JNum(0)),
                                    status |-> "submitted"]
                              ELSE payments[id]],
              response |-> [status_code |-> 200, submitted |-> TRUE, error |-> "",
                            paymentId |-> payment_id]]

\* submit_payment(req): the ledger and the response after the request.
\* body is the JSON of the request, payment_id the identifier drawn for it;
\* comparing an amount that is not a number raises, which the host answers
\* with a 500
submit_payment(payments, body, payment_id) ==
    LET vendor_code == Get(body, "vendorCode", JStr("")).str
        amount == Get(body, "amount", JNum(0))
        rejected(error) ==
            [payments |-> payments,
             response |-> [status_code |-> 200, submitted |-> FALSE, error |-> error,
                           paymentId |-> ""]]
    IN  IF vendor_code \notin DOMAIN APPROVED_VENDORS
        THEN rejected("vendor is not approved")
        ELSE IF "num" \notin DOMAIN amount
        THEN [payments |-> payments,
              response |-> [status_code |-> 500, submitted |-> FALSE,
                            error |-> "TypeError", paymentId |-> ""]]
        ELSE IF amount.num > APPROVED_VENDORS[vendor_code].maxSinglePayment
        THEN rejected("amount exceeds vendor limit")
        ELSE [payments |-> [id \in DOMAIN payments \cup {payment_id} |->
                              IF id = payment_id
                              THEN [vendorCode |-> vendor_code, amount |-> amount,
                                    status |-> "submitted"]
                              ELSE payments[id]],
              response |-> [status_code |-> 200, submitted |-> TRUE, error |-> "",
                            paymentId |-> payment_id]]

\* requests the API answers before it is left alone
MaxSubmits == 3

\* POST /api/payments/submit: a body with a vendor code (approved, not
\* approved, missing) and an amount in cents (at, under and over each
\* limit, zero, negative, a string, null, missing); the identifier is one
\* of those random.randint can give twice
SubmitPayment ==
    /\ call.fn = "payments" /\ call.requests < MaxSubmits
    /\ \E vendor \in {<<>>, <<"ABCIND-001">>, <<"DELTCH-002">>, <<"GRNENV-006">>},
          amount \in {JNull, JStr("13531.25")}
                       \cup { JNum(n) : n \in {-100, 0, 1353125, 2500000, 2500001,
                                                5000000, 5000001} },
          sent \in BOOLEAN,
          payment_id \in {"PAY-2026-10000", "PAY-2026-10001"} :
          LET body == [k \in (IF vendor = <<>> THEN {} ELSE {"vendorCode"})
                               \cup (IF sent THEN {"amount"} ELSE {}) |->
                         IF k = "vendorCode" THEN JStr(vendor[1]) ELSE amount]
              after == submit_payment(call.payments, body, payment_id)
          IN  call' = [call EXCEPT !.payments = after.payments,
                                   !.request = body,
                                   !.response = after.response,
                                   !.requests = @ + 1]
    /\ UNCHANGED <<settings, tickets, tasks, http, requests, upd>>

\* GET /api/payments/status/{payment_id}: the status is the one the time
\* elapsed since the submission gives, which only grows
CheckPaymentStatus ==
    /\ call.fn = "payments"
    /\ \E payment_id \in DOMAIN call.payments,
          status \in {"submitted", "processing", "completed"} :
          /\ call.payments[payment_id].status = "completed" => status = "completed"
          /\ call.payments[payment_id].status = "processing" => status # "submitted"
          /\ call' = [call EXCEPT !.payments[payment_id].status = status,
                                  !.request = EmptyDict,
                                  !.response = [status_code |-> 200, submitted |-> FALSE,
                                                error |-> "", paymentId |-> payment_id]]
    /\ UNCHANGED <<settings, tickets, tasks, http, requests, upd>>

\* the function app has started: _payments = {}
InitPay ==
    /\ settings \in { c \in SimSettings : c.mappings_file }
    /\ tickets = [t \in TicketIds |-> JNull]
    /\ tasks = [i \in TaskIds |-> IdleTask]
    /\ http = [ep |-> "create", tid |-> "T1", code |-> 201]
    /\ requests = 0
    /\ upd = NoUpdate
    /\ call = [fn |-> "payments", payments |-> <<>>, request |-> EmptyDict, requests |-> 0,
               response |-> [status_code |-> 0, submitted |-> FALSE, error |-> "",
                             paymentId |-> ""]]

NextPay == SubmitPayment \/ CheckPaymentStatus

SpecPay == InitPay /\ [][NextPay]_vars

----------------------------------------------------------------------------
(* Properties of the stage triggers *)

\* the trigger call of a task is past its guard
InCall(task) == task.stage \in {"B", "C"} /\ task.pc # "guard"

\* the call did stage work: a POST, a simulator run, a write, or is about to
StartedWork(task) ==
    \/ task.pc \in {"post1", "post2", "sim", "sim_try", "err"}
    \/ task.posts > 0 \/ task.sims > 0 \/ task.writes > 0

\* the return value is a failure with a reported error
ReturnsFailure(task) ==
    /\ IsDict(task.result)
    /\ Get(task.result.dict, "success", JNull) = JBool(FALSE)
    /\ IsStr(Get(task.result.dict, "error", JNull))

StartStatuses(stage) ==
    IF stage = "B" THEN {"extracted", "ai_processing", "error"}
    ELSE {"ai_processed", "invoice_processing", "error"}

EndpointOf(stage) == IF stage = "B" THEN "process-ai" ELSE "process-invoice"

C1_TriggerGuarded ==
    \A i \in TaskIds :
        LET task == tasks[i]
        IN  InCall(task) =>
              /\ StartedWork(task) =>
                    IsDict(task.ticket) /\ StatusOf(task.ticket) \in StartStatuses(task.stage)
              /\ (IsDict(task.ticket) /\ StatusOf(task.ticket) \notin StartStatuses(task.stage)) =>
                    /\ task.pc = "ret" /\ task.outcome = "rejected"
                    /\ ReturnsFailure(task)
                    /\ task.posts = 0 /\ task.sims = 0

C1_EndpointGuarded ==
    \A stage \in {"B", "C"}, t \in TicketIds :
        (requests' = requests + 1 /\ http'.ep = EndpointOf(stage) /\ http'.tid = t) =>
            /\ tasks' # tasks => StatusOf(tickets[t]) \in StartStatuses(stage)
            /\ (IsDict(tickets[t]) /\ StatusOf(tickets[t]) \notin StartStatuses(stage)) =>
                  http'.code = 409 /\ tasks' = tasks

\* C1: a stage-2 request (trigger call or process-ai endpoint) starts stage
\* work only from status extracted, ai_processing or error, a stage-3 request
\* only from ai_processed, invoice_processing or error; from any other status
\* it is rejected with a reported error (failure value, HTTP 409) and neither
\* a POST nor a simulator run happens.
C1_StatusGuard == []C1_TriggerGuarded /\ [][C1_EndpointGuarded]_vars

\* a chained or manual trigger was rejected by the status guard
C1_Witness ==
    \E i \in TaskIds :
        /\ tasks[i].pc = "ret" /\ tasks[i].outcome = "rejected"
        /\ StatusOf(tasks[i].ticket) \in {"ingested", "extracting", "extracted", "invoice_processed"}

\* a trigger call returned a rejection in this step
Rejected(i) ==
    /\ tasks'[i].outcome \in {"rejected", "not_found"}
    /\ tasks[i].outcome \notin {"rejected", "not_found"}

C2_RejectionStep ==
    /\ \A i \in TaskIds :
          Rejected(i) =>
            /\ tickets' = tickets
            /\ tasks'[i].pc = "ret" /\ tasks'[i].writes = 0
            /\ ReturnsFailure(tasks'[i])
    /\ \A stage \in {"B", "C"}, t \in TicketIds :
          (requests' = requests + 1 /\ http'.ep = EndpointOf(stage) /\ http'.tid = t) =>
            /\ ~IsDict(tickets[t]) => http'.code = 404
            /\ http'.code \in {404, 409} => tickets' = tickets /\ tasks' = tasks

\* C2: a rejected stage-trigger request (status guard or ticket not found)
\* leaves the stored ticket exactly as it was and hands the rejection back as
\* a value: success=false with an error from the trigger, HTTP 409 or 404
\* from the endpoint, with no background work queued.
C2_RejectionLeavesTicket == [][C2_RejectionStep]_vars

\* a manual trigger call was refused by the status guard; the stored ticket is
\* still the document the guard read
C2_Witness ==
    \E i \in TaskIds : /\ tasks[i].pc = "ret" /\ tasks[i].outcome = "rejected"
                            /\ tasks[i].kind \in {"ai", "inv"}
                            /\ tickets[tasks[i].tid] = tasks[i].ticket


\* the trigger call of task i returns in this step
Returns(i) ==
    tasks[i].stage \in {"B", "C"} /\ tasks[i].pc # "ret" /\ tasks'[i].pc = "ret"

\* the last response the call got
FinalResponse(task) == IF task.second # "-" THEN task.second ELSE task.first

Strict == settings.disable_simulation_fallback

\* the stored ticket, if it still exists, is in status error and the stage's
\* sub-record carries the error the call returns
ErrorPersisted(doc, task) ==
    IsDict(doc) =>
        /\ StatusOf(doc) = "error"
        /\ Get(GetD(doc.dict, StageKey(task.stage)), "errorMessage", JNull)
             = Get(task.result.dict, "error", JStr("?"))

\* C4: within one remote stage call a second POST is sent only after a 503 to
\* the first, and there are never more than two POSTs; a retry that does not
\* give 200 (a 503 again, another status, a timeout or another failure) goes
\* to the error write when the strict flag is set and to the simulator when
\* it is not.
C4_SingleRetry ==
    \A i \in TaskIds :
        LET task == tasks[i]
        IN  InCall(task) =>
              /\ task.posts <= 2
              /\ (task.pc = "post2" \/ task.posts = 2 \/ task.second # "-") => task.first = "503"
              /\ task.second = "200" => task.pc = "ret" /\ task.outcome = "remote_ok"
              /\ task.second \notin {"-", "200"} =>
                    IF Strict
                    THEN /\ task.sims = 0
                         /\ task.pc = "err" \/ (task.pc = "ret" /\ task.outcome = "error")
                    ELSE task.pc = "sim_try" \/ (task.pc = "ret" /\ task.sims = 1)

\* a call returned after a retry that did not give 200
C4_Witness ==
    \E i \in TaskIds :
        /\ tasks[i].pc = "ret" /\ tasks[i].posts = 2
        /\ tasks[i].second \in {"503", "500", "404", "409", "timeout", "connect", "exc"}

C5_TimeoutStep ==
    \A i \in TaskIds :
        (Returns(i) /\ "timeout" \in {tasks'[i].first, tasks'[i].second}) =>
            /\ tasks'[i].outcome = "error"
            /\ ReturnsFailure(tasks'[i])
            /\ tasks'[i].sims = 0
            /\ ErrorPersisted(tickets'[tasks[i].tid], tasks'[i])

\* C5: whenever a POST of a stage call times out, on the first attempt or on
\* the retry after a 503, strict or not, the call writes status error with the
\* stage's error message, returns failure and does not run the simulator.
C5_TimeoutIsTerminal == [][C5_TimeoutStep]_vars

\* the same, for a timeout of the first POST only
C5_FirstTimeoutStep ==
    \A i \in TaskIds :
        (Returns(i) /\ tasks'[i].first = "timeout") =>
            /\ tasks'[i].outcome = "error"
            /\ ReturnsFailure(tasks'[i])
            /\ tasks'[i].sims = 0
            /\ ErrorPersisted(tickets'[tasks[i].tid], tasks'[i])

C5_FirstTimeoutIsTerminal == [][C5_FirstTimeoutStep]_vars

\* the retry timed out and the call returned the simulator's result
C5_Witness ==
    \E i \in TaskIds :
        /\ tasks[i].pc = "ret" /\ tasks[i].second = "timeout"
        /\ tasks[i].outcome = "sim_ok" /\ tasks[i].sims = 1

C6_StrictStep ==
    \A i \in TaskIds :
        (/\ Returns(i) /\ Strict /\ tasks'[i].posts >= 1
         /\ FinalResponse(tasks'[i]) \in {"500", "503", "connect", "timeout"}) =>
            /\ tasks'[i].outcome = "error"
            /\ ReturnsFailure(tasks'[i])
            /\ tasks'[i].sims = 0
            /\ ErrorPersisted(tickets'[tasks[i].tid], tasks'[i])

\* C6: with disable_simulation_fallback set, a remote call that fails with a
\* non-2xx status other than 404/409, a connection failure or a timeout
\* writes status error and returns failure; the simulator is not run.
C6_StrictNeverSimulates == [][C6_StrictStep]_vars

\* strict mode, the connection failed, and the simulator ran
C6_Witness ==
    \E i \in TaskIds :
        /\ Strict /\ tasks[i].pc = "ret" /\ tasks[i].first = "connect"
        /\ tasks[i].sims = 1

C7_ConflictStep ==
    \A i \in TaskIds :
        (Returns(i) /\ FinalResponse(tasks'[i]) \in {"404", "409"}) =>
            /\ tasks'[i].outcome \in {"remote_404", "remote_409"}
            /\ ReturnsFailure(tasks'[i])
            /\ tasks'[i].sims = 0 /\ tasks'[i].writes = 0
            /\ tickets' = tickets

\* C7: a 404 or 409 response of the remote processor makes the call return a
\* structured failure: no further POST, no simulator run (strict or not) and
\* no write to the ticket.
C7_ConflictIsFinal == [][C7_ConflictStep]_vars

\* the same, for a 404 or 409 given to the first POST
C7_FirstConflictStep ==
    \A i \in TaskIds :
        (Returns(i) /\ tasks'[i].first \in {"404", "409"}) =>
            /\ tasks'[i].outcome \in {"remote_404", "remote_409"}
            /\ ReturnsFailure(tasks'[i])
            /\ tasks'[i].posts = 1
            /\ tasks'[i].sims = 0 /\ tasks'[i].writes = 0
            /\ tickets' = tickets

C7_FirstConflictIsFinal == [][C7_FirstConflictStep]_vars

\* the retry after a 503 got 404 or 409 and the simulator ran
C7_Witness ==
    \E i \in TaskIds :
        /\ tasks[i].pc = "ret" /\ tasks[i].second \in {"404", "409"}
        /\ tasks[i].sims = 1 /\ tasks[i].writes = 1

C8_FallbackStep ==
    \A i \in TaskIds :
        (/\ Returns(i) /\ ~Strict /\ tasks'[i].posts >= 1
         /\ FinalResponse(tasks'[i]) \in {"500", "503", "connect"}) =>
            /\ tasks'[i].sims = 1
            /\ tasks'[i].outcome = "sim_ok"
            /\ Get(tasks'[i].result.dict, "success", JNull) = JBool(TRUE)
            /\ IsDict(tickets'[tasks[i].tid]) =>
                 StatusOf(tickets'[tasks[i].tid]) = DoneStatus(tasks[i].stage)

\* C8: with the strict flag off, a remote call that ends in a non-2xx status
\* other than 404/409 (after the one retry, if any) or in a connection failure
\* runs the simulator once, returns its result as success and leaves the
\* ticket at ai_processed (stage 2) or invoice_processed (stage 3).
C8_FallbackSucceeds == [][C8_FallbackStep]_vars

\* the fallback simulator raised on a ticket whose extraction failed: the
\* call wrote status error and returned failure
C8_Witness ==
    \E i \in TaskIds :
        /\ ~Strict /\ tasks[i].pc = "ret" /\ tasks[i].first = "500"
        /\ tasks[i].sims = 1 /\ tasks[i].outcome = "error"
        /\ StatusOf(tickets[tasks[i].tid]) = "error"

\* no endpoint configured, or a localhost endpoint in development mode
SimulatorOnly(stage) ==
    LET url == IF stage = "B" THEN settings.stage_b_function_url
               ELSE settings.stage_c_function_url
    IN  url = "" \/ (settings.app_env = "development" /\ Contains(url, "localhost"))

----------------------------------------------------------------------------
(* Properties of the auto-chain *)

\* process_extraction goes on after stage 2 returned success
ChainsAfterSuccess(i) ==
    /\ tasks[i].kind = "extract" /\ tasks[i].stage = "B" /\ tasks[i].pc = "ret"
    /\ tasks[i].outcome \in {"remote_ok", "sim_ok"}
    /\ tasks'[i] # tasks[i]

\* the run enters the stage-3 trigger
InvokesStage3(i) ==
    tasks'[i].kind = "extract" /\ tasks'[i].stage = "C" /\ tasks'[i].pc = "guard"

C3_ChainStep ==
    \A i \in TaskIds :
        ChainsAfterSuccess(i) =>
            /\ InvokesStage3(i) <=>
                  Contains(Lower(tasks[i].produced), "invoice_processing")
            /\ ~InvokesStage3(i) =>
                  StatusOf(tickets'[tasks[i].tid]) = StatusOf(tickets[tasks[i].tid])

\* C3: after stage 2 succeeded in a pipeline run, stage 3 is invoked exactly
\* when the next action stage 2 produced contains invoice_processing
\* (case-insensitively), for the remote processor and for the local simulator
\* alike; when it is skipped the ticket's status is left alone.
C3_AutoChain == [][C3_ChainStep]_vars

\* the same, for runs whose stage 2 was done by the remote processor
C3_RemoteChainStep ==
    \A i \in TaskIds :
        (ChainsAfterSuccess(i) /\ tasks[i].outcome = "remote_ok") =>
            /\ InvokesStage3(i) <=>
                  Contains(Lower(tasks[i].produced), "invoice_processing")
            /\ ~InvokesStage3(i) =>
                  StatusOf(tickets'[tasks[i].tid]) = StatusOf(tickets[tasks[i].tid])

C3_RemoteAutoChain == [][C3_RemoteChainStep]_vars

\* a run ended with stage 3 skipped although the simulator's next action, as
\* persisted, is invoice_processing
C3_Witness ==
    \E t \in TicketIds :
        /\ IsDict(tickets[t])
        /\ \A i \in TaskIds : tasks[i].kind = "none"
        /\ requests = 0
        /\ Get(GetD(tickets[t].dict, "_autochain"), "stage", JNull) = JStr("skipped_stage_c")
        /\ Get(GetD(tickets[t].dict, "aiProcessing"), "nextAction", JNull)
             = JStr("invoice_processing")
        /\ StatusOf(tickets[t]) = "ai_processed"

----------------------------------------------------------------------------
(* Properties of the store *)

\* `after` is the deep merge of `patch` into `before` (contents of objects):
\* both hold an object at a key: recurse; the patch names the key otherwise:
\* its value; the patch does not name the key: the previous value
RECURSIVE IsDeepMerge(_, _, _)
IsDeepMerge(before, patch, after) ==
    /\ DOMAIN after = DOMAIN before \cup DOMAIN patch
    /\ \A k \in DOMAIN after :
         IF k \notin DOMAIN patch THEN after[k] = before[k]
         ELSE IF k \in DOMAIN before /\ IsDict(before[k]) /\ IsDict(patch[k])
         THEN IsDict(after[k]) /\ IsDeepMerge(before[k].dict, patch[k].dict, after[k].dict)
         ELSE after[k] = patch[k]

\* a document without its updatedAt stamp
Unstamped(doc) == [k \in DOMAIN doc \ {"updatedAt"} |-> doc[k]]

\* the last update of an existing ticket was a deep merge
LastUpdateMerged ==
    (upd.n > 0 /\ IsDict(upd.before)) =>
        /\ IsDict(upd.after)
        /\ IsDeepMerge(Unstamped(upd.before.dict), upd.patch.dict, Unstamped(upd.after.dict))

\* C10: storage.update_ticket(id, patch) is a deep merge on both back ends:
\* objects held by both the patch and the stored document are merged
\* recursively, any other patch value replaces the stored one, and every key
\* the patch does not name, at any depth, keeps its value (the updatedAt stamp
\* aside).
C10_UpdateIsDeepMerge == LastUpdateMerged

\* the same, for the in-memory back end
C10_MemoryUpdateIsDeepMerge == ~settings.cosmos_configured => LastUpdateMerged

\* on the Cosmos back end an update replaced a stage record and dropped a
\* field the patch did not name
C10_Witness ==
    /\ settings.cosmos_configured
    /\ upd.n > 0 /\ IsDict(upd.before) /\ IsDict(upd.after)
    /\ "extraction" \in DOMAIN upd.patch.dict
    /\ "contentUnderstanding" \in DOMAIN GetD(upd.before.dict, "extraction")
    /\ "contentUnderstanding" \notin DOMAIN GetD(upd.patch.dict, "extraction")
    /\ "contentUnderstanding" \notin DOMAIN GetD(upd.after.dict, "extraction")

----------------------------------------------------------------------------
(* Properties of the ticket document *)

\* the stage sub-records of a ticket
StageRecords == {"extraction", "aiProcessing", "invoiceProcessing"}

\* doc[key] of a stored document, null when absent
SubRecord(doc, key) == IF IsDict(doc) THEN Get(doc.dict, key, JNull) ELSE JNull

\* doc[key]["status"] of a stored document
SubStatus(doc, key) ==
    IF IsDict(SubRecord(doc, key)) THEN Get(SubRecord(doc, key).dict, "status", JNull) ELSE JNull

\* every top-level key outside `written` has the same value before and after
FrameExcept(before, after, written) ==
    IF IsDict(before)
    THEN /\ IsDict(after)
         /\ \A k \in DOMAIN before.dict \ written :
                k \in DOMAIN after.dict /\ after.dict[k] = before.dict[k]
         /\ DOMAIN after.dict \ DOMAIN before.dict \subseteq written
    ELSE after = before

\* task i persists its extraction result or its stage-1 error in this step
ExtractionWrite(i) == tasks[i].pc = "extract" /\ tasks'[i].pc # "extract"

\* task i runs the simulator of its stage, or makes the terminal error write
TriggerWrite(i) ==
    /\ tasks[i].pc \in {"sim", "sim_try", "err"}
    /\ tasks'[i].pc = "ret"

C11_WriteStep ==
    \A i \in TaskIds :
        LET t == tasks[i].tid
        IN  /\ ExtractionWrite(i) =>
                FrameExcept(tickets[t], tickets'[t],
                            {"status", "updatedAt", "extraction", "_autochain"})
            /\ TriggerWrite(i) =>
                FrameExcept(tickets[t], tickets'[t],
                            {"status", "updatedAt", StageKey(tasks[i].stage)})

\* C11: every write a stage makes (the extraction result, a simulator's stage
\* result, a terminal error write) changes only the top-level status, the
\* store's updatedAt stamp and the stage's own sub-record (stage 1 also writes
\* its _autochain marker); the other two stage sub-records and every other
\* field keep their values, so a ticket that errors keeps its prior results.
C11_StageWritesOwnRecord == [][C11_WriteStep]_vars

\* a stage-3 error write happened and both earlier stage results are still there
C11_Witness ==
    \E i \in TaskIds :
        /\ tasks[i].stage = "C" /\ tasks[i].pc = "ret" /\ tasks[i].outcome = "error"
        /\ tasks[i].writes = 1
        /\ StatusOf(tickets[tasks[i].tid]) = "error"
        /\ SubStatus(tickets[tasks[i].tid], "invoiceProcessing") = JStr("error")
        /\ SubStatus(tickets[tasks[i].tid], "aiProcessing") = JStr("completed")
        /\ SubStatus(tickets[tasks[i].tid], "extraction") = JStr("completed")
        /\ IsDict(ticket_cu(tickets[tasks[i].tid].dict))

\* the stage sub-records agree with the top-level status of a document
StatusConsistent(doc) ==
    LET status == StatusOf(doc)
        done(key) == SubStatus(doc, key) = JStr("completed")
    IN  /\ status = "extracted" => done("extraction")
        /\ status = "ai_processed" => done("extraction") /\ done("aiProcessing")
        /\ status = "invoice_processed" =>
              /\ done("aiProcessing")
              /\ SubStatus(doc, "invoiceProcessing") \in {JStr("completed"), JStr("skipped")}

\* C12: under any interleaving of pipeline runs, manual stage triggers and
\* reprocess requests the stored document is consistent: status extracted
\* implies extraction completed; ai_processed implies extraction and
\* aiProcessing completed; invoice_processed implies aiProcessing completed and
\* invoiceProcessing completed or skipped.
C12_ConsistentDocument == \A t \in TicketIds : StatusConsistent(tickets[t])

\* a reprocess request arrived while a stage-2 call of the run was past its
\* guard, and that call then stored its result
C12_Witness ==
    \E i \in TaskIds :
        /\ tasks[i].kind = "extract" /\ tasks[i].stage = "B" /\ tasks[i].pc = "ret"
        /\ tasks[i].outcome = "sim_ok"
        /\ http.ep = "reprocess" /\ http.code = 200
        /\ StatusOf(tickets[tasks[i].tid]) = "ai_processed"
        /\ SubStatus(tickets[tasks[i].tid], "extraction") = JStr("pending")

----------------------------------------------------------------------------
(* Properties of the Stage C simulator *)

\* the stage-2 next action of the ticket a trigger call read
NextActionRead(task) == Get(GetD(task.ticket.dict, "aiProcessing"), "nextAction", JStr(""))

\* task i runs the Stage C simulator to its end in this step
InvoiceSimulation(i) ==
    /\ tasks[i].stage = "C" /\ tasks[i].pc \in {"sim", "sim_try"}
    /\ tasks'[i].outcome = "sim_ok"

\* the simulator stored and returned a skipped record: no validations, no payment
SkippedResult(result) ==
    LET inv == GetD(result.dict, "invoiceProcessing")
    IN  /\ Get(inv, "status", JNull) = JStr("skipped")
        /\ Get(inv, "validations", JStr("-")) = JNull
        /\ Get(inv, "paymentSubmission", JStr("-")) = JNull
        /\ Get(inv, "errors", JList(<<>>)) # JList(<<>>)

C13_SkipStep ==
    \A i \in TaskIds :
        (InvoiceSimulation(i) /\ NextActionRead(tasks[i]) # JStr("invoice_processing")) =>
            /\ SkippedResult(tasks'[i].result)
            /\ SubRecord(tickets'[tasks[i].tid], "invoiceProcessing")
                   \in {JNull, tasks'[i].result.dict["invoiceProcessing"]}

\* C13: the Stage C simulator attempts a payment only when the ticket's
\* stage-2 next action equals invoice_processing; for any other next action,
\* a missing or empty one included, it marks the stage skipped with a message,
\* leaves validations and paymentSubmission null and produces no payment.
C13_PaymentOnlyWhenRequested == [][C13_SkipStep]_vars

C13_NamedSkipStep ==
    \A i \in TaskIds :
        (InvoiceSimulation(i) /\ Truthy(NextActionRead(tasks[i]))
           /\ NextActionRead(tasks[i]) # JStr("invoice_processing")) =>
            SkippedResult(tasks'[i].result)

\* the same for a next action that is present and not empty
C13_NamedActionSkipped == [][C13_NamedSkipStep]_vars

\* the Stage C simulator ran on a ticket whose next action asks for something
\* else, and stored a skipped record
C13_Witness ==
    \E i \in TaskIds :
        /\ tasks[i].stage = "C" /\ tasks[i].pc = "ret" /\ tasks[i].outcome = "sim_ok"
        /\ Truthy(NextActionRead(tasks[i]))
        /\ NextActionRead(tasks[i]) # JStr("invoice_processing")
        /\ SkippedResult(tasks[i].result)
        /\ SubStatus(tickets[tasks[i].tid], "invoiceProcessing") = JStr("skipped")

\* the Stage C simulator ran on a ticket without a next action and paid
C13_PaidWithoutNextAction ==
    \E i \in TaskIds :
        /\ tasks[i].stage = "C" /\ tasks[i].pc = "ret" /\ tasks[i].outcome = "sim_ok"
        /\ ~Truthy(NextActionRead(tasks[i]))
        /\ Get(GetD(GetD(tasks[i].result.dict, "invoiceProcessing"), "paymentSubmission"),
               "submitted", JNull) = JBool(TRUE)

\* the stored invoiceProcessing record reports a submitted payment
PaymentSubmitted(doc) ==
    LET inv == SubRecord(doc, "invoiceProcessing")
    IN  /\ IsDict(inv)
        /\ IsDict(Get(inv.dict, "paymentSubmission", JNull))
        /\ Get(inv.dict["paymentSubmission"].dict, "submitted", JNull) = JBool(TRUE)

\* the five validation fields of the stored invoiceProcessing record are all true
AllValidationsTrue(doc) ==
    LET inv == SubRecord(doc, "invoiceProcessing")
    IN  /\ IsDict(inv)
        /\ IsDict(Get(inv.dict, "validations", JNull))
        /\ \A i \in 1..Len(ValidationNames) :
              Get(inv.dict["validations"].dict, ValidationNames[i], JNull) = JBool(TRUE)

\* C14: in every reachable ticket state paymentSubmission.submitted is true
\* only if invoiceNumberValid, amountCorrect, dueDateValid, vendorApproved and
\* budgetAvailable of the same invoiceProcessing record are all true.
C14_PaymentNeedsAllValid ==
    \A t \in TicketIds : PaymentSubmitted(tickets[t]) => AllValidationsTrue(tickets[t])

\* the simulator validated an invoice, found a failing check and stored a
\* record without a payment
C14_RefusedPayment ==
    \E i \in TaskIds :
        LET doc == tickets[tasks[i].tid]
        IN  /\ tasks[i].stage = "C" /\ tasks[i].pc = "ret" /\ tasks[i].outcome = "sim_ok"
            /\ SubStatus(doc, "invoiceProcessing") = JStr("completed")
            /\ IsDict(Get(doc.dict["invoiceProcessing"].dict, "validations", JNull))
            /\ ~AllValidationsTrue(doc)
            /\ ~PaymentSubmitted(doc)

\* the simulator stored a submitted payment
C14_Witness ==
    \E i \in TaskIds :
        /\ tasks[i].stage = "C" /\ tasks[i].pc = "ret" /\ tasks[i].outcome = "sim_ok"
        /\ PaymentSubmitted(tickets[tasks[i].tid])
        /\ AllValidationsTrue(tickets[tasks[i].tid])

----------------------------------------------------------------------------
(* Properties of the status field *)

\* the chain ingested -> ... -> invoice_processed
StatusChain ==
    << "ingested", "extracting", "extracted", "ai_processing", "ai_processed",
       "invoice_processing", "invoice_processed" >>

\* the position of a status in the chain (0 for a value outside it)
StatusRank(status) ==
    IF \E n \in 1..Len(StatusChain) : StatusChain[n] = status
    THEN CHOOSE n \in 1..Len(StatusChain) : StatusChain[n] = status
    ELSE 0

\* no router request was handled so far: the only work is the pipeline run
\* queued when the ticket was created
SingleRun == requests = 0

C15_StatusStep ==
    \A t \in TicketIds :
        LET old == StatusOf(tickets[t])
            new == StatusOf(tickets'[t])
        IN  (SingleRun /\ SingleRun' /\ tickets[t] # JNull /\ tickets'[t] # JNull) =>
              /\ new \in {"error"} \cup {StatusChain[n] : n \in 1..Len(StatusChain)}
              /\ old = "error" => new = "error"
              /\ new # "error" => StatusRank(new) >= StatusRank(old)

C15_ErrorEnd ==
    /\ SingleRun
    /\ \A i \in TaskIds : tasks[i].kind = "none"
    /\ StatusOf(tickets["T1"]) = "error"
    /\ SubStatus(tickets["T1"], "aiProcessing") = JStr("error")

----------------------------------------------------------------------------
(* Properties of the stage records *)

\* the stage record is filled in: its status is not pending
NonPending(doc, key) == SubStatus(doc, key) # JStr("pending")

\* the stage records of a stored document are filled in pipeline order
PipelineOrder(doc) ==
    IsDict(doc) =>
        /\ NonPending(doc, "invoiceProcessing") => NonPending(doc, "aiProcessing")
        /\ NonPending(doc, "aiProcessing") => NonPending(doc, "extraction")

\* C16: in every reachable state invoiceProcessing is non-pending only if
\* aiProcessing is non-pending, and aiProcessing is non-pending only if
\* extraction is non-pending, also after manual triggers accepted from the
\* error status and after retries of a single stage.
C16_FilledInPipelineOrder == \A t \in TicketIds : PipelineOrder(tickets[t])

\* a process-invoice request was accepted from status error and its stage-3
\* call has ended
C16_Witness ==
    \E i \in TaskIds :
        /\ tasks[i].kind = "inv" /\ tasks[i].pc = "ret"
        /\ IsDict(tasks[i].ticket) /\ StatusOf(tasks[i].ticket) = "error"
        /\ tasks[i].outcome \in {"sim_ok", "remote_ok", "error"}
        /\ NonPending(tickets[tasks[i].tid], "invoiceProcessing")

\* that call filled invoiceProcessing in while aiProcessing was still pending
C16_InvoiceBeforeAi ==
    \E i \in TaskIds :
        /\ tasks[i].kind = "inv" /\ tasks[i].pc = "ret"
        /\ IsDict(tasks[i].ticket) /\ StatusOf(tasks[i].ticket) = "error"
        /\ IsDict(tickets[tasks[i].tid])
        /\ NonPending(tickets[tasks[i].tid], "invoiceProcessing")
        /\ ~NonPending(tickets[tasks[i].tid], "aiProcessing")

----------------------------------------------------------------------------
(* Properties of the pipeline run *)

\* what the guard of an auto-chained stage call read from the store
GuardRead(task) == task.ticket

\* the guard of the auto-chained stage 2 read this run's extraction result
ReadsExtraction(task) ==
    /\ IsDict(GuardRead(task))
    /\ StatusOf(GuardRead(task)) = "extracted"
    /\ SubStatus(GuardRead(task), "extraction") = JStr("completed")
    /\ \E cu_result \in CuResults :
          SubRecord(GuardRead(task), "extraction").dict["contentUnderstanding"] = JDict(cu_result)

\* the guard of the auto-chained stage 3 read the result stage 2 persisted
ReadsAiResult(task) ==
    /\ IsDict(GuardRead(task))
    /\ StatusOf(GuardRead(task)) = "ai_processed"
    /\ SubStatus(GuardRead(task), "aiProcessing") = JStr("completed")
    /\ IsStr(Get(SubRecord(GuardRead(task), "aiProcessing").dict, "nextAction", JNull))

StoredCu(doc) == Get(SubRecord(doc, "extraction").dict, "contentUnderstanding", JNull)

\* the stored extraction is an error result of the extractor: the empty
\* fields and a message
ExtractorErrorStored(doc) ==
    /\ IsDict(doc) /\ IsDict(SubRecord(doc, "extraction")) /\ IsDict(StoredCu(doc))
    /\ "error" \in DOMAIN StoredCu(doc).dict
    /\ StoredCu(doc).dict = empty_cu_result(StoredCu(doc).dict["error"].str)

C18_ExtractorErrorStep ==
    \A i \in TaskIds :
        LET doc == tickets'[tasks[i].tid]
        IN  (ExtractionWrite(i) /\ ExtractorErrorStored(doc)) =>
              /\ StatusOf(doc) = "extracted"
              /\ SubStatus(doc, "extraction") = JStr("completed")
              /\ SubRecord(doc, "extraction").dict["errorMessage"] = StoredCu(doc).dict["error"]
              /\ tasks'[i].kind = "extract" /\ tasks'[i].stage = "B" /\ tasks'[i].pc = "guard"

\* C18: when the structured extractor gives an error result, process_extraction
\* still persists an extraction record with status completed that holds the
\* empty fields and the error message, sets the status to extracted and goes on
\* to invoke stage 2; the ticket is not set to error.
C18_ExtractorErrorAdvances == [][C18_ExtractorErrorStep]_vars

\* an extractor error was stored and the run is in its stage-2 call
C18_Witness ==
    \E i \in TaskIds :
        /\ tasks[i].kind = "extract" /\ tasks[i].stage = "B" /\ InCall(tasks[i])
        /\ ExtractorErrorStored(tasks[i].ticket)
        /\ StatusOf(tasks[i].ticket) = "extracted"
        /\ StartedWork(tasks[i])

\* task i of a pipeline run enters its stage-2 call in this step
InvokesStage2(i) ==
    /\ tasks'[i].kind = "extract" /\ tasks'[i].stage = "B" /\ tasks'[i].pc = "guard"
    /\ tasks[i] # tasks'[i]

C19_ExtractionStep ==
    \A i \in TaskIds :
        LET doc == tickets'[tasks[i].tid]
        IN  /\ ExtractionWrite(i) =>
                \/ /\ InvokesStage2(i)
                   /\ IsDict(doc) => StatusOf(doc) = "extracted"
                \/ /\ tasks'[i].kind = "none"
                   /\ IsDict(doc) =>
                        /\ StatusOf(doc) = "error"
                        /\ SubStatus(doc, "extraction") = JStr("error")
            \* stage 2 is entered from the extraction write only, and a run
            \* comes to that write once, from the queue
            /\ InvokesStage2(i) => tasks[i].pc = "extract"
            /\ (tasks'[i].pc = "extract" /\ tasks[i].pc # "extract") => tasks[i].pc = "queued"
            /\ (tasks'[i].pc = "queued" /\ tasks[i].pc # "queued") => tasks[i].kind = "none"

\* C19: a process_extraction run that persists status extracted invokes stage
\* 2 exactly once in the same run, after that write; a run in which stage 1
\* raises sets status error with extraction.status error and never invokes
\* stage 2.
C19_Stage2OncePerRun == [][C19_ExtractionStep]_vars

\* a run stored status extracted and its stage-2 call has been made
C19_Witness ==
    \E i \in TaskIds :
        /\ tasks[i].kind = "extract" /\ tasks[i].stage = "B" /\ tasks[i].pc = "ret"
        /\ StatusOf(tasks[i].ticket) = "extracted"
        /\ tasks[i].posts + tasks[i].sims >= 1

\* a run in which stage 1 raised has ended without a stage-2 call
C19_RaisedRunEnded ==
    /\ \A i \in TaskIds : tasks[i].kind = "none"
    /\ SingleRun
    /\ StatusOf(tickets["T1"]) = "error"
    /\ SubStatus(tickets["T1"], "extraction") = JStr("error")
    /\ SubStatus(tickets["T1"], "aiProcessing") = JStr("pending")

----------------------------------------------------------------------------
(* Properties of reprocess *)

\* the reprocess endpoint answers 200 for ticket t in this step
ReprocessAccepted(t) ==
    /\ requests' = requests + 1
    /\ http'.ep = "reprocess" /\ http'.tid = t /\ http'.code = 200

\* the document is reset: status ingested, every stage record pending
IsReset(doc) ==
    /\ StatusOf(doc) = "ingested"
    /\ \A key \in StageRecords : SubStatus(doc, key) = JStr("pending")

\* a fresh stage-1 run for ticket t is queued in this step
EnqueuesExtraction(t) ==
    \E i \in TaskIds :
        /\ tasks[i].kind = "none"
        /\ tasks'[i] = NewTask("extract", t)

C20_ReprocessStep ==
    \A t \in TicketIds :
        /\ (requests' = requests + 1 /\ http'.ep = "reprocess" /\ http'.tid = t
               /\ IsDict(tickets[t])) => http'.code = 200
        /\ ReprocessAccepted(t) => IsReset(tickets'[t]) /\ EnqueuesExtraction(t)

\* the last request was an accepted reprocess and the ticket is still ingested
AwaitsRerun(t) == http.ep = "reprocess" /\ http.code = 200 /\ StatusOf(tickets[t]) = "ingested"

\* the ticket left ingested (or was deleted)
LeftIngested(t) == StatusOf(tickets[t]) # "ingested"

\* C20: for an existing ticket in any status, reprocess resets the status to
\* ingested and each stage record's status to pending and enqueues a fresh
\* stage-1 run, so that the ticket subsequently leaves ingested and is run
\* again from stage 1.
C20_ReprocessReruns ==
    /\ [][C20_ReprocessStep]_vars
    /\ \A t \in TicketIds : AwaitsRerun(t) ~> LeftIngested(t)

C20_ResetStep ==
    \A t \in TicketIds : ReprocessAccepted(t) => IsReset(tickets'[t])

\* the reset alone: every accepted reprocess leaves the document reset
C20_ReprocessResets == [][C20_ResetStep]_vars

\* a reprocess of a ticket that had reached a final status was accepted, the
\* document was reset and a fresh stage-1 run is queued
C20_Witness ==
    /\ http.ep = "reprocess" /\ http.code = 200
    /\ IsReset(tickets["T1"])
    /\ IsDict(StoredCu(tickets["T1"]))
    /\ \E i \in TaskIds : tasks[i] = NewTask("extract", "T1")

\* a reprocess was accepted, nothing is queued or running, and the ticket is
\* still ingested
C20_Stuck ==
    /\ AwaitsRerun("T1")
    /\ \A i \in TaskIds : tasks[i].kind = "none"

----------------------------------------------------------------------------
(* Properties of runs of different tickets *)

\* this step is an operation performed for ticket a: a step of one of its
\* background tasks, or a router request that names it
OperationFor(a) ==
    \/ \E i \in TaskIds :
          tasks[i].kind # "none" /\ tasks[i].tid = a /\ tasks'[i] # tasks[i]
    \/ requests' = requests + 1 /\ http'.tid = a

C21_IsolationStep ==
    \A a \in TicketIds :
        OperationFor(a) => \A b \in TicketIds \ {a} : tickets'[b] = tickets[b]

\* C21: runs of different tickets share no mutable state: an operation
\* performed for ticket A (a stage run, a trigger, a reprocess, an update)
\* leaves the stored document of every other ticket unchanged, under any
\* interleaving of the runs.
C21_TicketsIsolated == [][C21_IsolationStep]_vars

\* the two runs are interleaved: the run of T2 is inside its stage-2 call
\* while the run of T1 has stored its stage-2 result
C21_Witness ==
    \E i, j \in TaskIds :
        /\ tasks[i].tid = "T1" /\ tasks[i].kind = "extract" /\ tasks[i].pc = "ret"
        /\ tasks[j].tid = "T2" /\ tasks[j].kind = "extract" /\ InCall(tasks[j])
        /\ tasks[j].pc # "ret"
        /\ StatusOf(tickets["T1"]) = "ai_processed"
        /\ StatusOf(tickets["T2"]) = "extracted"
        /\ StoredCu(tickets["T1"]) # StoredCu(tickets["T2"])

----------------------------------------------------------------------------
(* Properties of the Stage B simulator *)

\* the Stage B simulator was called and returned
AiCalled == call.fn = "ai" /\ call.done

\* the aiProcessing record the simulator stored
AiRecord == call.result.dict["aiProcessing"].dict

\* the flags of the stored record, as a set
AiFlags == {AiRecord["flags"].list[n] : n \in 1..Len(AiRecord["flags"].list)}

\* the conditions of the decision, read from the ticket
VendorUnapproved ==
    Get(GetD(GetD(GetD(load_code_mappings(settings), "vendor_codes"), "mappings"),
             call.input.cu["vendorName"].str), "approved", JBool(TRUE)) = JBool(FALSE)

SomeDiscrepancy ==
    \/ price_discrepancy_detected(call.input.cu["lineItems"].list,
            GetD(GetD(load_code_mappings(settings), "product_codes"), "mappings"))
    \/ amount_discrepancy(call.input.cu)

Hazardous == call.input.cu["hazardousFlag"] = JBool(TRUE)

PastDue == call.input.due = "past"

\* the action and the flags the first matching condition gives
FirstMatch ==
    CASE VendorUnapproved -> [action_key |-> "vendor_not_approved",
                              flags |-> <<"UNAPPROVED_VENDOR">>]
      [] ~VendorUnapproved /\ SomeDiscrepancy ->
            [action_key |-> "amount_discrepancy_detected",
             flags |-> <<"AMOUNT_DISCREPANCY", "MANUAL_REVIEW_REQUIRED">>]
      [] ~VendorUnapproved /\ ~SomeDiscrepancy /\ Hazardous ->
            [action_key |-> "hazardous_materials_present",
             flags |-> <<"HAZARDOUS", "EHS_REVIEW_REQUIRED">>]
      [] ~VendorUnapproved /\ ~SomeDiscrepancy /\ ~Hazardous /\ PastDue ->
            [action_key |-> "past_due_invoice", flags |-> <<"PAST_DUE", "EXPEDITED_PAYMENT">>]
      [] OTHER -> [action_key |-> "valid_invoice_all_checks_pass", flags |-> <<>>]

\* C22: the Stage B simulator chooses exactly one action by first match in
\* the order unapproved vendor, price or amount discrepancy, hazardous
\* materials, past-due date, default valid; a lower condition neither decides
\* the action nor adds flags when a higher one holds.
C22_FirstMatchPriority ==
    AiCalled =>
        /\ call.decision = FirstMatch
        /\ AiRecord["flags"] = JList(FirstMatch.flags)

\* an unapproved vendor with a discrepancy, hazardous goods and a past due
\* date: only the vendor decides
C22_Witness ==
    /\ AiCalled
    /\ VendorUnapproved /\ SomeDiscrepancy /\ Hazardous /\ PastDue
    /\ AiFlags = {"UNAPPROVED_VENDOR"}

\* the next action the simulator stored
AiNextAction == AiRecord["nextAction"]

\* what process_extraction holds when the simulator returned this payload
AiReturn == [outcome |-> "sim_ok", result |-> Success(call.result.dict)]

\* C23: whenever the Stage B simulator emits UNAPPROVED_VENDOR or
\* AMOUNT_DISCREPANCY, the next action it stores is not invoice_processing
\* and the pipeline run that called it does not go on to Stage C.
C23_FlaggedNeverInvoiced ==
    (AiCalled /\ AiFlags \cap {"UNAPPROVED_VENDOR", "AMOUNT_DISCREPANCY"} # {}) =>
        /\ AiNextAction # JStr("invoice_processing")
        /\ ~chains_to_invoice(AiReturn)

\* a flagged ticket that is routed away from invoice processing
C23_Routed ==
    /\ AiCalled
    /\ "AMOUNT_DISCREPANCY" \in AiFlags
    /\ AiNextAction = JStr("manual_review")

\* a flagged ticket whose stored next action is invoice_processing
C23_Witness ==
    /\ AiCalled
    /\ ~settings.mappings_file
    /\ "AMOUNT_DISCREPANCY" \in AiFlags
    /\ AiNextAction = JStr("invoice_processing")

\* with the mappings file in place the flagged ticket is always routed away
C23_RoutedWithMappings == settings.mappings_file => C23_FlaggedNeverInvoiced

\* the line items and the product table the price check reads
AiItems == call.input.cu["lineItems"].list

ProductRange(item) ==
    GetD(GetD(GetD(GetD(load_code_mappings(settings), "product_codes"), "mappings"),
              item.dict["productCode"].str), "expectedPriceRange")

\* some line item is priced below the minimum or above the maximum of the
\* expected range of its product
PriceOutsideRange ==
    \E n \in 1..Len(AiItems) :
        LET range == ProductRange(AiItems[n])
            price == AiItems[n].dict["unitPrice"].num
        IN  /\ DOMAIN range = {"min", "max"}
            /\ price < range["min"].num \/ price > range["max"].num

\* the sum of the line-item amounts, in cents
RECURSIVE AmountSum(_)
AmountSum(n) == IF n = 0 THEN 0 ELSE AiItems[n].dict["amount"].num + AmountSum(n - 1)

\* the sum differs from the stated subtotal by more than one cent
SumOffSubtotal ==
    LET d == AmountSum(Len(AiItems)) - call.input.cu["subtotal"].num
    IN  d > 1 \/ d < -1

\* C24: the Stage B simulator detects a price discrepancy exactly when some
\* line item's unit price is below the minimum or above the maximum of its
\* product's expected range, and an amount discrepancy exactly when the sum
\* of the line-item amounts differs from the stated subtotal by more than
\* one cent.
C24_DiscrepanciesDetected ==
    AiCalled =>
        /\ call.price_discrepancy <=> PriceOutsideRange
        /\ call.amount_discrepancy <=> SumOffSubtotal

\* the cases the simulator's checks cover: a unit price that was read, a
\* subtotal and a sum that are both non-zero
C24_DetectedWhenRead ==
    AiCalled =>
        /\ (\A n \in 1..Len(AiItems) : AiItems[n].dict["unitPrice"].num # 0)
              => (call.price_discrepancy <=> PriceOutsideRange)
        /\ (call.input.cu["subtotal"].num # 0 /\ AmountSum(Len(AiItems)) # 0)
              => (call.amount_discrepancy <=> SumOffSubtotal)

\* both discrepancies detected on one ticket
C24_BothDetected ==
    /\ AiCalled
    /\ call.price_discrepancy /\ PriceOutsideRange
    /\ call.amount_discrepancy /\ SumOffSubtotal

\* a subtotal of 1200.00 over no line items, and nothing detected
C24_Witness ==
    /\ AiCalled
    /\ settings.mappings_file
    /\ AiItems = <<>> /\ call.input.cu["subtotal"].num = 120000
    /\ SumOffSubtotal /\ ~call.amount_discrepancy

\* a unit price of 0.00 under the minimum of 100.00, and nothing detected
C24_ZeroPrice ==
    /\ AiCalled
    /\ PriceOutsideRange /\ ~call.price_discrepancy

----------------------------------------------------------------------------
(* Properties of the Stage C simulator called on its own *)

\* the Stage C simulator was called and returned
InvoiceCalled == call.fn = "invoice" /\ call.done

\* the invoiceProcessing record the simulator stored
InvoiceRecord == call.result.dict["invoiceProcessing"].dict

\* the simulator ran its validations (it did not skip the ticket)
Validated == InvoiceCalled /\ InvoiceRecord["status"] = JStr("completed")

Payment == InvoiceRecord["paymentSubmission"].dict

\* the checks other than the due date, read from the ticket
NumberOk ==
    call.input.cu["invoiceNumber"].str \in {"INV-1", "DC-7", "FRT-2", "2026-0001"}

AmountOk ==
    call.input.cu["totalAmount"].num > 0 /\ call.input.cu["totalAmount"].num < 50000000

BudgetOk == call.input.cu["totalAmount"].num < 10000000

VendorOk ==
    ~(settings.mappings_file
      /\ call.input.cu["vendorName"].str = "Greenfield Environmental Services")

DueOk == call.input.due # "unparsed"

OtherChecksPass == NumberOk /\ AmountOk /\ BudgetOk /\ VendorOk

\* C25: for a ticket whose due date is in the past and whose other checks
\* pass, the Stage C simulator reports all validations true and a submitted
\* payment expected one day after processing; a payment for a ticket whose
\* due date is not in the past is expected three days after processing.
C25_PastDueExpedited ==
    Validated =>
        /\ (call.input.due = "past" /\ OtherChecksPass) =>
              /\ \A n \in 1..Len(ValidationNames) :
                    InvoiceRecord["validations"].dict[ValidationNames[n]] = JBool(TRUE)
              /\ Payment["submitted"] = JBool(TRUE)
              /\ Payment["expectedPaymentDate"] = JStr("now+1d")
        /\ (call.input.due \in {"none", "today", "future"} /\ OtherChecksPass) =>
              /\ Payment["submitted"] = JBool(TRUE)
              /\ Payment["expectedPaymentDate"] = JStr("now+3d")

\* a past-due invoice paid within a day
C25_Witness ==
    /\ Validated
    /\ call.input.due = "past" /\ OtherChecksPass
    /\ Payment["expectedPaymentDate"] = JStr("now+1d")

\* an invoice due today paid within three days
C25_DueToday ==
    /\ Validated
    /\ call.input.due = "today" /\ OtherChecksPass
    /\ Payment["expectedPaymentDate"] = JStr("now+3d")

\* the validations that fail on this ticket, in the order of the record
FailingChecks ==
    SelectSeq(ValidationNames,
              LAMBDA name : CASE name = "invoiceNumberValid" -> ~NumberOk
                              [] name = "amountCorrect" -> ~AmountOk
                              [] name = "dueDateValid" -> ~DueOk
                              [] name = "vendorApproved" -> ~VendorOk
                              [] name = "budgetAvailable" -> ~BudgetOk)

\* C26: when the Stage C simulator runs its validations, the errors list
\* holds exactly one message per failing validation and is empty iff all
\* validations pass; when a validation fails there is no payment
\* identifier and submitted is not true.
C26_OneErrorPerFailure ==
    Validated =>
        /\ InvoiceRecord["errors"] = JList(FailingChecks)
        /\ \A n \in 1..Len(ValidationNames) :
              InvoiceRecord["validations"].dict[ValidationNames[n]]
                = JBool(\A k \in 1..Len(FailingChecks) : FailingChecks[k] # ValidationNames[n])
        /\ (InvoiceRecord["errors"] = JList(<<>>)) <=> (FailingChecks = <<>>)
        /\ FailingChecks # <<>> =>
              /\ Payment["paymentId"] = JNull
              /\ Payment["submitted"] # JBool(TRUE)

\* three validations fail at once: three messages and no payment
C26_Witness ==
    /\ Validated
    /\ Len(FailingChecks) = 3
    /\ Len(InvoiceRecord["errors"].list) = 3
    /\ Payment["paymentId"] = JNull

----------------------------------------------------------------------------
(* Properties of structured extraction *)

\* extract_with_content_understanding was called and returned
ExtractCalled == call.fn = "extract" /\ call.done

\* the tier that served the call: the primary service when it is configured
\* and the regex tier was not asked for, else the regex fallback
PrimaryTier == call.input.extraction_method # "regex" /\ call.input.configured

FallbackTier == ~PrimaryTier /\ call.input.pdf.bytes

\* the line items as the tier extracted them, and as the call returned them
ExtractedItems ==
    IF PrimaryTier
    THEN (IF call.input.service.raised THEN <<>> ELSE call.input.service.items)
    ELSE IF call.input.pdf.bytes THEN extract_line_items_multiline(call.input.pdf.lines)
    ELSE <<>>

ReturnedItems == call.result["lineItems"].list

\* r is x rounded to two decimals (x a product of two numbers in hundredths)
IsRounded(r, x) == 100 * r - x \in -50..50

\* the reconciliation of one item: a zero amount with quantity and unit
\* price known becomes their rounded product, a non-zero amount stays
Reconciled(extracted, returned) ==
    LET q == extracted.dict["quantity"].num
        p == extracted.dict["unitPrice"].num
        a == extracted.dict["amount"].num
    IN  /\ (a = 0 /\ q > 0 /\ p > 0) =>
              /\ IsRounded(returned.dict["amount"].num, q * p)
              /\ returned = JDict([extracted.dict EXCEPT !["amount"] = returned.dict["amount"]])
        /\ a # 0 => returned = extracted

\* C27: after structured extraction by any tier, every line item with
\* quantity > 0 and unitPrice > 0 whose extracted amount was 0 has amount
\* round(quantity x unitPrice, 2), and line items with a non-zero extracted
\* amount are unchanged.
C27_AnyTierReconciles ==
    ExtractCalled =>
        /\ Len(ReturnedItems) = Len(ExtractedItems)
        /\ \A n \in 1..Len(ReturnedItems) : Reconciled(ExtractedItems[n], ReturnedItems[n])

\* C27 as amended: the primary service's line items are reconciled; the
\* regex fallback returns its line items as it parsed them.
C27_PrimaryTierReconciles ==
    ExtractCalled =>
        /\ Len(ReturnedItems) = Len(ExtractedItems)
        /\ PrimaryTier =>
              \A n \in 1..Len(ReturnedItems) : Reconciled(ExtractedItems[n], ReturnedItems[n])
        /\ ~PrimaryTier => ReturnedItems = ExtractedItems

\* the primary service read 1.75 units at 0.33 and no amount: 0.58
C27_Witness ==
    /\ ExtractCalled /\ PrimaryTier
    /\ Len(ReturnedItems) = 1
    /\ ExtractedItems[1].dict["amount"] = JNum(0)
    /\ ExtractedItems[1].dict["quantity"] = JNum(175)
    /\ ReturnedItems[1].dict["amount"] = JNum(58)

\* the regex fallback parsed 2 units at 500.00 with amount 0.00 and left it
C27_FallbackUnreconciled ==
    /\ ExtractCalled /\ FallbackTier
    /\ Len(ReturnedItems) = 1
    /\ ReturnedItems[1].dict["quantity"] = JNum(200)
    /\ ReturnedItems[1].dict["unitPrice"] = JNum(50000)
    /\ ReturnedItems[1].dict["amount"] = JNum(0)

----------------------------------------------------------------------------
(* Properties of columnar reconstruction *)

\* _extract_columnar_block was called and returned
ColumnarCalled == call.fn = "columnar" /\ call.done

Declared == call.input.labels

DocLines == call.input.lines

\* the lines that hold the k-th declared label
LinesOf(k) == {i \in 1..Len(DocLines) : Upper(Strip(DocLines[i])) = Upper(Declared[k])}

\* the declared labels that are in the document
FoundLabels == {k \in 1..Len(Declared) : LinesOf(k) # {}}

\* the first line of a found label
FirstLine(k) == CHOOSE i \in LinesOf(k) : \A j \in LinesOf(k) : i <= j

\* the end of the label block: the greatest first line of a found label
Boundary ==
    CHOOSE m \in {FirstLine(k) : k \in FoundLabels} : \A k \in FoundLabels : FirstLine(k) <= m

\* the n-th line after the label block, empty past the end of the text
LineAfterBlock(n) ==
    IF Boundary + n <= Len(DocLines) THEN Strip(DocLines[Boundary + n]) ELSE ""

\* the position of a found label among the found labels, in document order
DocumentRank(k) == Cardinality({j \in FoundLabels : FirstLine(j) <= FirstLine(k)})

\* C28: columnar reconstruction gives the k-th declared label the k-th line
\* after the label block, whatever the order of the labels in the source,
\* and a label that is not found the empty value.
C28_DeclaredOrder ==
    ColumnarCalled =>
        \A k \in 1..Len(Declared) :
            call.result[Declared[k]] = IF k \in FoundLabels THEN LineAfterBlock(k) ELSE ""

\* C28 as amended: the found labels receive the lines after the label block
\* in the order the labels appear in the source (the k-th found label in
\* document order receives the k-th line), and a label that is not found
\* receives the empty value.
C28_DocumentOrder ==
    ColumnarCalled =>
        \A k \in 1..Len(Declared) :
            call.result[Declared[k]] =
                IF k \in FoundLabels THEN LineAfterBlock(DocumentRank(k)) ELSE ""

\* DUE DATE printed before INVOICE NUMBER: the first value goes to DUE DATE
C28_Witness ==
    /\ ColumnarCalled
    /\ Declared = HeaderLabels
    /\ FoundLabels = {1, 3}
    /\ FirstLine(3) < FirstLine(1)
    /\ call.result["DUE DATE"] = "INV-2026-78432"
    /\ call.result["INVOICE NUMBER"] = "January 22, 2026"
    /\ call.result["PO NUMBER"] = ""

\* the four labels printed in declared order get the four values in order
C28_PrintedInOrder ==
    /\ ColumnarCalled
    /\ Declared = HeaderLabels
    /\ FoundLabels = {1, 2, 3, 4}
    /\ \A k \in 1..4 : call.result[Declared[k]] = Strip(HeaderValues[k])

----------------------------------------------------------------------------
(* Properties of the line-item tokenizer *)

\* the loop of the tokenizer is about to read a table line
ReadsLine == call.fn = "items" /\ call.pc = "loop" /\ call.st.pos <= Len(call.table)

\* the loop is over and the final flush is next
AtEndOfTable == call.fn = "items" /\ call.pc = "loop" /\ call.st.pos > Len(call.table)

CurrentLine == call.table[call.st.pos]

\* the table lines by what they are
CompleteCodeLines == {"VLV-4200-IND"}
PartialCodeLines == {"FRT-TRUCK-"}
UpperAlnumLines == {"BT", "2"}
CurrencyLines == {"$500.00", "$1,000.00"}
IntegerLines == {"2"}

PartialPending == call.st.current_code # "" /\ EndsWith(call.st.current_code, "-")

\* the rule that takes the current line: the first that matches, in order
FirstRule ==
    CASE CurrentLine \in CompleteCodeLines -> "code"
      [] CurrentLine \in PartialCodeLines -> "partial"
      [] CurrentLine \notin CompleteCodeLines \cup PartialCodeLines
           /\ PartialPending /\ CurrentLine \in UpperAlnumLines -> "continuation"
      [] CurrentLine \in CurrencyLines -> "amount"
      [] CurrentLine \in IntegerLines /\ ~PartialPending /\ call.st.current_code # ""
           -> "quantity"
      [] OTHER -> "description"

\* the number a line stands for, in hundredths
NumberOf(line) ==
    CASE line = "$500.00" -> 50000 [] line = "$1,000.00" -> 100000 [] line = "2" -> 200

\* what the rule does with the line
RuleApplied ==
    CASE FirstRule \in {"code", "partial"} ->
            /\ call'.st.current_code = CurrentLine
            /\ call'.st.amounts_buffer = call.st.amounts_buffer
            /\ call'.st.current_desc_parts = call.st.current_desc_parts
      [] FirstRule = "continuation" ->
            /\ call'.st.current_code = call.st.current_code \o CurrentLine
            /\ call'.st.amounts_buffer = call.st.amounts_buffer
            /\ call'.st.current_desc_parts = call.st.current_desc_parts
      [] FirstRule \in {"amount", "quantity"} ->
            /\ call'.st.current_code = call.st.current_code
            /\ call'.st.amounts_buffer = Append(call.st.amounts_buffer, NumberOf(CurrentLine))
            /\ call'.st.current_desc_parts = call.st.current_desc_parts
      [] FirstRule = "description" ->
            \/ /\ call'.st.pos = call.st.pos + 1
               /\ call'.st.current_desc_parts = Append(call.st.current_desc_parts, CurrentLine)
               /\ call'.st.current_code = call.st.current_code
               /\ call'.st.amounts_buffer = call.st.amounts_buffer
            \/ /\ call'.st.pos = call.st.pos
               /\ call'.st.emitted

C29_ClassifyStep == ReadsLine => (call'.st.kind = FirstRule /\ RuleApplied)

\* C29: the line-item tokenizer classifies every table line by the first
\* matching rule in the order complete code, partial code ending in a
\* hyphen, continuation of a pending partial code, currency-formatted
\* number, bare integer when a code is pending, description fragment; a bare
\* integer with no pending code is a description fragment, and a
\* continuation line after a partial code extends the code.
C29_FirstMatchingRule == [][C29_ClassifyStep]_vars

\* "2" after the partial code FRT-TRUCK- became part of the code, and a "2"
\* read before any code is in the description
C29_Witness ==
    /\ call.fn = "items"
    /\ call.st.current_code = "FRT-TRUCK-2"
    /\ call.st.amounts_buffer = <<>>
    /\ \E n \in 1..Len(call.st.current_desc_parts) : call.st.current_desc_parts[n] = "2"

\* a complete item is pending: a code and at least three numbers
ItemPending == call.st.current_code # "" /\ Len(call.st.amounts_buffer) >= 3

\* the item the pending values make
PendingItem ==
    D({<<"description", JStr(Join(call.st.current_desc_parts))>>,
       <<"productCode", JStr(call.st.current_code)>>,
       <<"quantity", JNum(call.st.amounts_buffer[1])>>,
       <<"unitPrice", JNum(call.st.amounts_buffer[2])>>,
       <<"amount", JNum(call.st.amounts_buffer[3])>>})

\* the step emits: a description line or the end of the table is reached
\* while an item is pending
EmissionDue == ItemPending /\ (AtEndOfTable \/ (ReadsLine /\ FirstRule = "description"))

\* the three locals are empty
LocalsEmpty(st) ==
    st.current_desc_parts = <<>> /\ st.current_code = "" /\ st.amounts_buffer = <<>>

\* emission exactly when due, of the pending item, after the earlier items
EmitsWhenDue ==
    IF EmissionDue
    THEN call'.st.items = Append(call.st.items, PendingItem)
    ELSE call'.st.items = call.st.items

C30_EmitStep ==
    (call.fn = "items" /\ call.pc = "loop") =>
        /\ EmitsWhenDue
        /\ EmissionDue => LocalsEmpty(call'.st)

\* C30: the tokenizer emits a line item exactly when a description line or
\* the end of the table is reached while a code is pending and at least
\* three numbers are buffered; the item carries the pending code, the
\* description fragments accumulated since the previous emission and the
\* first three buffered numbers as quantity, unit price and amount; after an
\* emission the description accumulator, the pending code and the numeric
\* buffer are all empty; items are emitted in table order.
C30_EmissionAndReset == [][C30_EmitStep]_vars

C30_LoopEmitStep ==
    (call.fn = "items" /\ call.pc = "loop") =>
        /\ EmitsWhenDue
        /\ (EmissionDue /\ ReadsLine) => LocalsEmpty(call'.st)
        /\ (EmissionDue /\ AtEndOfTable) =>
              /\ call'.st.current_desc_parts = call.st.current_desc_parts
              /\ call'.st.current_code = call.st.current_code
              /\ call'.st.amounts_buffer = call.st.amounts_buffer
              /\ call'.pc = "returned"

\* C30 as amended: as C30, but the three locals are empty after an emission
\* made at a description line (before that line is added to the
\* accumulator); the emission at the end of the table leaves them as they
\* are and the function returns.
C30_EmissionAndLoopReset == [][C30_LoopEmitStep]_vars

\* two items emitted in table order, the second at the end of the table
C30_Witness ==
    /\ call.fn = "items" /\ call.pc = "returned"
    /\ Len(call.st.items) = 2
    /\ call.st.items[1].dict["description"] = JStr("Industrial valve")
    /\ call.st.items[2].dict["description"] = JStr("Gate valve")
    /\ call.st.items[2].dict["productCode"] = JStr("VLV-4200-IND")
    /\ call.st.items[2].dict["quantity"] = JNum(200)

\* an item was emitted at a description line and the locals are empty
C30_EmittedInLoop ==
    /\ call.fn = "items" /\ call.pc = "loop"
    /\ call.st.emitted /\ LocalsEmpty(call.st)
    /\ Len(call.st.items) = 1


----------------------------------------------------------------------------
(* Properties of the selection of the extraction tier *)

Method == call.input.extraction_method

\* the call returned the empty result with an error string that explains it
EmptyWithError ==
    /\ call.tier = "empty"
    /\ call.result["lineItems"] = JList(<<>>)
    /\ call.result["invoiceNumber"] = JStr("")
    /\ call.result["error"] # JStr("")
    /\ call.result = empty_cu_result(call.result["error"].str)

\* C31: with method auto the primary service is used iff it is configured,
\* otherwise the regex fallback iff raw bytes were supplied, otherwise the
\* empty result with an explanatory error string; method regex never calls
\* the primary service even when it is configured; method cu uses the
\* primary service whenever it is configured.
C31_TierSelection ==
    ExtractCalled =>
        /\ Method = "auto" =>
              /\ call.tier = "primary" <=> call.input.configured
              /\ ~call.input.configured => (call.tier = "fallback" <=> call.input.pdf.bytes)
              /\ (~call.input.configured /\ ~call.input.pdf.bytes) => EmptyWithError
        /\ Method = "regex" => call.tier # "primary"
        /\ (Method = "cu" /\ call.input.configured) => call.tier = "primary"
        /\ call.tier = "primary" =>
              call.result = fix_line_item_amounts(extract_with_cu_sdk(call.input.service))
        /\ call.tier = "fallback" => call.result = extract_fallback(call.input.pdf)

\* the regex method was asked for with the primary service configured, a
\* service that answers with items and a PDF that reads: the result is the
\* regex tier's and not the service's
C31_Witness ==
    /\ ExtractCalled /\ Method = "regex" /\ call.input.configured
    /\ ~call.input.service.raised /\ call.input.service.items # <<>>
    /\ call.input.pdf.lines # <<>>
    /\ call.tier = "fallback"
    /\ "poNumber" \in DOMAIN call.result
    /\ call.result # fix_line_item_amounts(extract_with_cu_sdk(call.input.service))

\* the auto method with nothing configured and no bytes
C31_EmptyTier == ~(ExtractCalled /\ Method = "auto" /\ EmptyWithError)


----------------------------------------------------------------------------
(* Properties of the metadata extractor *)

MetadataCalled == call.fn = "metadata" /\ call.done

FileSizeDisplay == call.result["fileSizeDisplay"].str

\* the unit a display carries: what follows its one space
UnitOf(display) ==
    LET space == CHOOSE k \in 1..Len(display) : SubSeq(display, k, k) = " "
    IN  SubSeq(display, space + 1, Len(display))

\* C32: for every input size s in bytes, the metadata extractor's
\* fileSizeDisplay carries the unit B iff s < 1024, KB iff
\* 1024 <= s < 1024^2, and MB otherwise.
C32_UnitBySize ==
    MetadataCalled =>
        LET s == call.input.size
            unit == UnitOf(FileSizeDisplay)
        IN  /\ unit = "B" <=> s < 1024
            /\ unit = "KB" <=> (1024 <= s /\ s < 1024 * 1024)
            /\ unit = "MB" <=> s >= 1024 * 1024

\* bytes of a megabyte that PyMuPDF cannot open are displayed in bytes
C32_Witness ==
    /\ MetadataCalled /\ ~call.input.opens
    /\ call.input.size = 1024 * 1024
    /\ FileSizeDisplay = "1048576 B"
    /\ "error" \in DOMAIN call.result

\* the thresholds hold of every PDF that opens
C32_UnitWhenOpened == (MetadataCalled /\ call.input.opens) => C32_UnitBySize

\* a PDF one byte under a megabyte is displayed as 1024.0 KB
C32_RoundsUpInUnit ==
    ~(MetadataCalled /\ call.input.opens /\ call.input.size = 1024 * 1024 - 1
        /\ FileSizeDisplay = "1024.0 KB")

\* five megabytes and 5243 bytes are displayed with two decimals
C32_TwoDecimals ==
    ~(MetadataCalled /\ call.input.opens /\ FileSizeDisplay = "5.01 MB")


----------------------------------------------------------------------------
(* Properties of the parsers of the agents' answers *)

ParseCalled == call.fn \in {"parse_b", "parse_c"} /\ call.done

\* some run of the answer's atoms is a valid JSON object
ContainsObject(text) ==
    \E i, j \in DOMAIN text : i < j /\ json_loads(SubSeq(text, i, j)).ok

\* C33: valid JSON embedded in a remote agent's free-form response, bare or
\* inside a fenced code block, is always extracted and used before the
\* parser falls back to keyword heuristics; keyword heuristics decide the
\* outcome only when the text contains no valid JSON object.
C33_JsonBeforeKeywords ==
    ParseCalled =>
        /\ ContainsObject(call.input) => call.result.parsed
        /\ call.result.by_text => ~ContainsObject(call.input)

\* an answer with two objects in it, the first with the summary: the text
\* from the first opening brace to the last closing one is not JSON, and
\* the success phrase decides
C33_Witness ==
    /\ call.fn = "parse_b" /\ call.done
    /\ call.input = <<"Here are the results", "{", "\"summary\": \"Two valves\"", "}",
                      "{", "\"ticketId\": \"T1\"", "}", "successfully updated">>
    /\ ~call.result.parsed /\ call.result.by_text /\ call.result.success
    /\ call.result.summary # "Two valves"

\* the same in stage C
C33_InvoiceWitness ==
    ~(/\ call.fn = "parse_c" /\ call.done
      /\ call.input = <<"{", "\"payment_submitted\": true", "}", "}", "successfully updated">>
      /\ ~call.result.parsed /\ call.result.by_text /\ ~call.result.payment_submitted)

\* one object in a fenced block, nested or not, is read whatever surrounds
\* the block
C33_FencedObjectRead ==
    (/\ ParseCalled
     /\ \E n \in DOMAIN call.input :
          /\ call.input[n] = Fence /\ n < Len(call.input) /\ call.input[n + 1] = "{"
          /\ \A k \in 1..(n - 1) : call.input[k] # Fence
          /\ \E m \in DOMAIN call.input :
               /\ m > n + 1 /\ m < Len(call.input) /\ call.input[m + 1] = Fence
               /\ json_loads(SubSeq(call.input, n + 1, m)).ok)
    => call.result.parsed

C33_FencedRead ==
    ~(/\ call.fn = "parse_b" /\ call.done
      /\ call.input = <<Fence, "{", "\"aiProcessing\":", "{",
                        "\"summary\": \"Two valves\"", "}", "}", Fence, "successfully updated">>
      /\ call.result.parsed /\ ~call.result.by_text /\ call.result.summary = "Two valves")


----------------------------------------------------------------------------
(* Properties of the Payment API *)

\* the step is a submit request answered by the API
SubmitStep == call.fn = "payments" /\ call'.requests = call.requests + 1

RequestedVendor == Get(call'.request, "vendorCode", JStr("")).str

RequestedAmount == Get(call'.request, "amount", JNum(0))

\* the request is for a vendor that is not approved, or for an amount over
\* the vendor's limit
Unpayable ==
    \/ RequestedVendor \notin DOMAIN APPROVED_VENDORS
    \/ /\ "num" \in DOMAIN RequestedAmount
       /\ RequestedAmount.num > APPROVED_VENDORS[RequestedVendor].maxSinglePayment

LedgerSound(payments) ==
    \A id \in DOMAIN payments :
        /\ payments[id].vendorCode \in DOMAIN APPROVED_VENDORS
        /\ "num" \in DOMAIN payments[id].amount
        /\ payments[id].amount.num <= APPROVED_VENDORS[payments[id].vendorCode].maxSinglePayment

C34_Step ==
    call'.fn = "payments" =>
        /\ LedgerSound(call'.payments)
        /\ (SubmitStep /\ Unpayable) =>
              /\ ~call'.response.submitted
              /\ call'.payments = call.payments

C34_SameIdentifier ==
    ~(/\ call.fn = "payments" /\ call.requests = 2 /\ call.response.submitted
      /\ Cardinality(DOMAIN call.payments) = 1
      /\ \E id \in DOMAIN call.payments : call.payments[id].vendorCode = "DELTCH-002")


----------------------------------------------------------------------------
(* Properties of what a trigger returns *)

ReturnsSuccess(task) ==
    IsDict(task.result) /\ Get(task.result.dict, "success", JNull) = JBool(TRUE)

\* the handler answered 200 with a body that reports the failure of the agent
AgentFailureReported(task) ==
    /\ task.outcome = "remote_ok"
    /\ Get(task.result.dict, "status", JNull) = JStr("error")

C35_ReturnStep ==
    \A i \in TaskIds :
        (Returns(i) /\ ReturnsSuccess(tasks'[i])) =>
            /\ StatusOf(tickets'[tasks'[i].tid]) = DoneStatus(tasks'[i].stage)
            /\ ~AgentFailureReported(tasks'[i])

\* C35: a stage trigger returns success=true only if, when it returns, the
\* stage has actually completed for the ticket (persisted status
\* ai_processed after stage 2, invoice_processed after stage 3); a remote
\* handler response that reports an agent failure for the ticket is not
\* returned to the caller as success.
C35_SuccessMeansCompleted == [][C35_ReturnStep]_vars

\* the Stage B handler answered 200 with status error after writing the
\* fallback record; the trigger returned success = True with that body
C35_Witness ==
    \E i \in TaskIds :
        /\ tasks[i].pc = "ret" /\ tasks[i].stage = "B" /\ tasks[i].posts = 1
        /\ tasks[i].first = "200"
        /\ ReturnsSuccess(tasks[i]) /\ AgentFailureReported(tasks[i])
        /\ StatusOf(tickets[tasks[i].tid]) = "error"

\* a success returned by the local simulator leaves the stage completed,
\* unless the ticket was deleted while the call was running
C35_SimulatorStep ==
    \A i \in TaskIds :
        (/\ Returns(i) /\ ReturnsSuccess(tasks'[i]) /\ tasks'[i].outcome = "sim_ok"
         /\ IsDict(tickets'[tasks'[i].tid])) =>
            StatusOf(tickets'[tasks'[i].tid]) = DoneStatus(tasks'[i].stage)

C35_SimulatorCompletes == [][C35_SimulatorStep]_vars

\* a 200 whose body reports success leaves the stage completed
C35_RemoteSuccessStep ==
    \A i \in TaskIds :
        (/\ Returns(i) /\ ReturnsSuccess(tasks'[i]) /\ tasks'[i].outcome = "remote_ok"
         /\ ~AgentFailureReported(tasks'[i])) =>
            StatusOf(tickets'[tasks'[i].tid]) = DoneStatus(tasks'[i].stage)

C35_RemoteSuccessCompletes == [][C35_RemoteSuccessStep]_vars


----------------------------------------------------------------------------
(* Properties of repeated stage-3 requests *)

\* the result of a stage-3 execution carries a payment confirmation
SynthesizesPayment(result) == IsDict(result) /\ PaymentSubmitted(result)

\* the ticket holds the payment of a completed stage 3 (a reprocess would
\* have taken the status back to ingested)
AlreadyPaid(doc) == StatusOf(doc) = "invoice_processed" /\ PaymentSubmitted(doc)

C36_PayStep ==
    \A i \in TaskIds :
        (InvoiceSimulation(i) /\ SynthesizesPayment(tasks'[i].result)) =>
            ~AlreadyPaid(tickets[tasks[i].tid])

\* C36: for a given ticket, without an intervening reprocess, at most one
\* stage-3 execution synthesizes a payment confirmation, even when stage 3
\* is requested several times (auto-chain plus a manual trigger, or two
\* manual triggers) while an earlier request is still queued or running.
C36_OnePayment == [][C36_PayStep]_vars

\* two stage-3 executions of one ticket, requested by two manual triggers,
\* have each returned a payment confirmation
C36_Witness ==
    /\ http.ep = "process-invoice" /\ http.code = 200 /\ requests = 1
    /\ \E i, j \in TaskIds :
          /\ i # j /\ tasks[i].tid = tasks[j].tid
          /\ \A k \in {i, j} :
                /\ tasks[k].kind = "inv" /\ tasks[k].pc = "ret" /\ tasks[k].outcome = "sim_ok"
                /\ SynthesizesPayment(tasks[k].result)
          /\ AlreadyPaid(tickets[tasks[i].tid])

\* with the tasks run one after the other, the second is turned away by
\* the status guard
C36_SecondRejected ==
    ~(/\ settings.workers = 1 /\ http.ep = "process-invoice" /\ requests = 1
      /\ \E i \in TaskIds :
            /\ tasks[i].kind = "inv" /\ tasks[i].pc = "ret" /\ tasks[i].outcome = "rejected"
            /\ AlreadyPaid(tickets[tasks[i].tid]))

----------------------------------------------------------------------------
(* Properties of a whole background pipeline run *)

\* process_extraction returns to the background-task runner
ExtractionReturns(i) == tasks[i].kind = "extract" /\ tasks'[i].kind = "none"

C37_ReturnStep ==
    \A i \in TaskIds :
        ExtractionReturns(i) => StatusOf(tickets'[tasks[i].tid]) # "extracting"

\* C37: every background pipeline run started by process_extraction
\* terminates, sending at most two POSTs to each remote stage processor, and
\* when it returns the ticket's status is not extracting.
C37_NotLeftExtracting == [][C37_ReturnStep]_vars

\* a run is about to return while a later run of the same ticket has set the
\* status to extracting
C37_Witness ==
    \E i, j \in TaskIds :
        /\ i # j
        /\ tasks[i].kind = "extract" /\ tasks[i].pc = "ret"
        /\ tasks[i].stage = "C" \/ ~chains_to_invoice(tasks[i])
        /\ tasks[j].kind = "extract" /\ tasks[j].pc = "extract"
        /\ tasks[j].tid = tasks[i].tid
        /\ StatusOf(tickets[tasks[i].tid]) = "extracting"

\* a run calls stage 2 once, then stage 3 at most once, and no call sends
\* more than two POSTs
C37_CallStep ==
    \A i \in TaskIds :
        (tasks[i].kind = "extract" /\ tasks'[i].kind = "extract") =>
            /\ tasks'[i].posts <= 2
            /\ tasks'[i].stage # tasks[i].stage =>
                 <<tasks[i].stage, tasks'[i].stage>> \in {<<"-", "B">>, <<"B", "C">>}
            /\ tasks'[i].stage = tasks[i].stage => tasks'[i].posts >= tasks[i].posts

C37_TwoPostsPerStage == [][C37_CallStep]_vars

\* how far a run is from its return: the calls it may still make, then the
\* position within the current one
RunRank(task) ==
    LET within == CASE task.pc = "queued" -> 2 [] task.pc = "extract" -> 1
                    [] task.pc = "guard" -> 7 [] task.pc = "post1" -> 6
                    [] task.pc = "post2" -> 5 [] task.pc = "sim_try" -> 4
                    [] task.pc = "sim" -> 3 [] task.pc = "err" -> 2
                    [] task.pc = "ret" -> 1 [] OTHER -> 0
    IN  CASE task.kind = "none" -> 0
          [] task.stage = "-" -> 30 + within
          [] task.stage = "B" -> 20 + within
          [] OTHER -> 10 + within

\* every step of a run brings it nearer to its return
C37_RankStep ==
    \A i \in TaskIds :
        (tasks[i].kind = "extract" /\ tasks'[i] # tasks[i]) =>
            RunRank(tasks'[i]) < RunRank(tasks[i])

C37_RunsShorten == [][C37_RankStep]_vars

\* with one thread in the pool, no run returns with the ticket in extracting
C37_ReturnsAlone == [][settings.workers = 1 => C37_ReturnStep]_vars

----------------------------------------------------------------------------
(* Properties of the ticket a remote handler has answered for *)

\* the handler accepted the ticket and its response arrived
HandlerAnswered(i) ==
    /\ tasks[i].pc \in {"post1", "post2"}
    /\ tasks'[i].posts = tasks[i].posts + 1
    /\ FinalResponse(tasks'[i]) = "200"

\* the handler's response reports a failure of the agent
ReportsFailure(task) == Get(task.result.dict, "status", JNull) = JStr("error")

C38_AnswerStep ==
    \A i \in TaskIds :
        HandlerAnswered(i) =>
            StatusOf(tickets'[tasks[i].tid]) =
                IF ReportsFailure(tasks'[i]) THEN "error" ELSE DoneStatus(tasks[i].stage)

\* C38: once the remote Stage B or Stage C handler has returned a response
\* for a ticket it accepted, the ticket is no longer in the transient status
\* the handler set: it is ai_processed / invoice_processed when the handler
\* reports success, and error when it reports failure.
C38_TransientLeft == [][C38_AnswerStep]_vars

\* a handler reported success and the ticket is still in the transient status
C38_Witness ==
    \E i \in TaskIds :
        /\ tasks[i].pc = "ret" /\ tasks[i].outcome = "remote_ok"
        /\ tasks[i].first = "200" /\ ~ReportsFailure(tasks[i])
        /\ StatusOf(tickets[tasks[i].tid]) = TransientStatus(tasks[i].stage)

\* a reported failure leaves the ticket in error
C38_FailureStep ==
    \A i \in TaskIds :
        (HandlerAnswered(i) /\ ReportsFailure(tasks'[i])) =>
            StatusOf(tickets'[tasks[i].tid]) = "error"

C38_FailureIsError == [][C38_FailureStep]_vars

----------------------------------------------------------------------------
(* Properties of the rows of the items table *)

\* the tokenizer has returned from a table
TableRead == call.fn = "items" /\ call.pc = "returned" /\ call.table # <<>>

\* the table lines at which a complete row starts: a product code followed
\* by its quantity, unit-price and amount lines
CompleteRows ==
    { p \in 1..(Len(call.table) - 3) :
        /\ MatchesCode(call.table[p]) /\ ~EndsWith(call.table[p], "-")
        /\ MatchesInteger(call.table[p + 1])
        /\ MatchesAmount(call.table[p + 2])
        /\ MatchesAmount(call.table[p + 3]) }

\* the code and the three numbers of the row that starts at line p
RowAt(p) ==
    [productCode |-> JStr(call.table[p]),
     quantity |-> JNum(100 * DigitsVal(call.table[p + 1])),
     unitPrice |-> JNum(AmountValue(call.table[p + 2])),
     amount |-> JNum(AmountValue(call.table[p + 3]))]

\* the code and the three numbers of an emitted item
RowOf(item) ==
    [productCode |-> item.dict["productCode"], quantity |-> item.dict["quantity"],
     unitPrice |-> item.dict["unitPrice"], amount |-> item.dict["amount"]]

\* a line that is neither a code nor a number
IsText(line) ==
    /\ ~MatchesCode(line) /\ ~MatchesPartialCode(line)
    /\ ~MatchesAmount(line) /\ ~MatchesInteger(line)

\* the description lines printed directly above line p
RECURSIVE DescriptionAbove(_)
DescriptionAbove(p) ==
    IF p = 1 \/ ~IsText(call.table[p - 1]) THEN <<>>
    ELSE Append(DescriptionAbove(p - 1), call.table[p - 1])

\* as many items carry a row's code and numbers as there are rows printed so
EmittedOncePerRow ==
    \A p \in CompleteRows :
        Cardinality({ k \in DOMAIN call.st.items : RowOf(call.st.items[k]) = RowAt(p) })
          = Cardinality({ q \in CompleteRows : RowAt(q) = RowAt(p) })

\* every item that carries the code of a complete row carries the numbers
\* and the description of one row with that code
NoRowsCombined ==
    \A k \in DOMAIN call.st.items :
        (\E p \in CompleteRows : call.table[p] = call.st.items[k].dict["productCode"].str) =>
            \E p \in CompleteRows :
                /\ RowOf(call.st.items[k]) = RowAt(p)
                /\ call.st.items[k].dict["description"] = JStr(Join(DescriptionAbove(p)))

\* C39: for every product-code line in the items table that is followed by
\* its quantity, unit-price and amount lines, the tokenizer emits exactly
\* one line item whose code is that code and whose three numbers are the
\* ones that followed it; no emitted item combines the code of one table
\* row with the numbers or description of another.
C39_OneItemPerRow == TableRead => (EmittedOncePerRow /\ NoRowsCombined)

\* two complete rows, the second printed without a description: one item
\* came out, and the amount of the second row is in no item
C39_Witness ==
    /\ TableRead
    /\ call.table = <<"Industrial valve", "VLV-4200-IND", "2", "$500.00", "$1,000.00",
                      "VLV-4200-IND", "2", "$500.00", "$500.00">>
    /\ Len(call.st.items) = 1
    /\ call.st.items[1].dict["amount"] = JNum(100000)

\* rows that each have a description above them and nothing else between
\* them come out one item per row
DescribedRowsOnly ==
    /\ \A p \in CompleteRows : DescriptionAbove(p) # <<>>
    /\ \A n \in DOMAIN call.table :
          \E p \in CompleteRows :
              n \in (p - Len(DescriptionAbove(p)))..(p + 3)

C39_DescribedRows == (TableRead /\ DescribedRowsOnly) => (EmittedOncePerRow /\ NoRowsCombined)

\* two described rows were read
C39_DescribedWitness ==
    /\ TableRead /\ DescribedRowsOnly
    /\ Cardinality(CompleteRows) = 2

============================================================================
